---- MODULE Spec2Model ----
(***************************************************************************)
(* Auto-save and metadata embedding of the Krita AI metadata/downloads     *)
(* extension: the save paths of auto_save.py and persistence.py, the       *)
(* document export of ui/generation.py, and the two readers                *)
(* (metadata_panel.py, ui/generation.py) that recover an embedded record.  *)
(***************************************************************************)
EXTENDS Integers, Sequences, FiniteSets, TLC

(***************************************************************************)
(* TEXT.  A Python str is a sequence of runs [c, n]: n repetitions of the  *)
(* character class c.  Classes of one character: "a" an ordinary ASCII     *)
(* character, "u2" a character of two UTF-8 bytes (e-acute), "sp" a space, *)
(* "ctl" a control character that _clean_metadata_value removes, "q" a     *)
(* double quote, "." a full stop.  Every other class is a fixed word       *)
(* (its length is WordLen); "IEND" is the four letters I,E,N,D as they     *)
(* occur in the word FRIEND, which are also the bytes of the PNG chunk     *)
(* type IEND.                                                              *)
(***************************************************************************)
Run(c, n) == [c |-> c, n |-> n]

Word(w) == <<Run(w, 1)>>

WordLen(w) ==
  CASE w = "prompt" -> 6
    [] w = "negative_prompt" -> 15
    [] w = "seed" -> 4
    [] w = "strength" -> 8
    [] w = "style" -> 5
    [] w = "checkpoint" -> 10
    [] w = "sampler" -> 7
    [] w = "generation_type" -> 15
    [] w = "job_kind" -> 8
    [] w = "timestamp" -> 9
    [] w = "batch_index" -> 11
    [] w = "total_images" -> 12
    [] w = "loras" -> 5
    [] w = "name" -> 4
    [] w = "enabled" -> 7
    [] w = "truncated" -> 9
    [] w = "steps" -> 5
    [] w = "param_steps" -> 11
    [] w = "cfg" -> 3
    [] w = "param_cfg" -> 9
    [] w = "param_seed" -> 10
    [] w = "document_width" -> 14
    [] w = "document_height" -> 15
    [] w = "Generate" -> 8
    [] w = "ImgGenerate" -> 11
    [] w = "Refine" -> 6
    [] w = "Upscale" -> 7
    [] w = "Document Export" -> 15
    [] w = "document_export" -> 15
    [] w = "diffusion" -> 9
    [] w = "animation" -> 9
    [] w = "upscaling" -> 9
    [] w = "control" -> 7
    [] w = "Unknown" -> 7
    [] w = "IEND" -> 4
    [] w = "YYYY-MM-DD HH:MM:SS" -> 19
    [] w = "YYYYMMDD-HHMMSS-" -> 16
    [] w = ".png" -> 4
    [] w = "metadata" -> 8
    [] OTHER -> 1

\* Bytes of one character of class c in UTF-8.
ByteLen(c) == IF c = "u2" THEN 2 ELSE WordLen(c)

RECURSIVE StrLen(_)
\* len(s): the number of characters of a str.
StrLen(s) ==
  IF s = <<>> THEN 0 ELSE Head(s).n * WordLen(Head(s).c) + StrLen(Tail(s))

RECURSIVE Utf8Len(_)
\* len(s.encode('utf-8')).
Utf8Len(s) ==
  IF s = <<>> THEN 0 ELSE Head(s).n * ByteLen(Head(s).c) + Utf8Len(Tail(s))

\* s + t, adjacent runs of one single-character class merged.
Concat(s, t) ==
  IF s = <<>> THEN t
  ELSE IF t = <<>> THEN s
  ELSE LET a == s[Len(s)]
           b == t[1]
       IN IF a.c = b.c /\ WordLen(a.c) = 1
          THEN SubSeq(s, 1, Len(s) - 1) \o <<Run(a.c, a.n + b.n)>> \o Tail(t)
          ELSE s \o t

RECURSIVE Take(_, _)
\* s[:k].  A cut inside a word leaves its first letters, ordinary characters.
Take(s, k) ==
  IF k <= 0 \/ s = <<>> THEN <<>>
  ELSE LET h == Head(s)
           w == WordLen(h.c)
       IN IF h.n * w <= k THEN Concat(<<h>>, Take(Tail(s), k - h.n * w))
          ELSE IF w = 1 THEN <<Run(h.c, k)>>
          ELSE Concat(IF k \div w > 0 THEN <<Run(h.c, k \div w)>> ELSE <<>>,
                      IF k % w > 0 THEN <<Run("a", k % w)>> ELSE <<>>)

RECURSIVE Replace(_, _, _)
\* s.replace(old, new) for two single-character classes.
Replace(s, old, new) ==
  IF s = <<>> THEN <<>>
  ELSE Concat(<<Run(IF Head(s).c = old THEN new ELSE Head(s).c, Head(s).n)>>,
              Replace(Tail(s), old, new))

RECURSIVE DropClass(_, _)
\* re.sub of one character class by the empty string.
DropClass(s, c) ==
  IF s = <<>> THEN <<>>
  ELSE IF Head(s).c = c THEN DropClass(Tail(s), c)
  ELSE Concat(<<Head(s)>>, DropClass(Tail(s), c))

\* str.strip(): leading and trailing whitespace removed.
Strip(s) ==
  LET lo == IF s # <<>> /\ s[1].c = "sp" THEN 2 ELSE 1
      hi == IF s # <<>> /\ s[Len(s)].c = "sp" THEN Len(s) - 1 ELSE Len(s)
  IN SubSeq(s, lo, hi)

\* persistence._clean_metadata_value: control characters removed, stripped.
_clean_metadata_value(value) == Strip(DropClass(value, "ctl"))

RECURSIVE Digits(_)
\* Number of decimal digits of a natural number.
Digits(n) == IF n < 10 THEN 1 ELSE 1 + Digits(n \div 10)

(***************************************************************************)
(* JSON VALUES.  A value is [t, s, n, kids]: t = "str" with the text s,    *)
(* "int" with n, "float" with n hundredths (0.5 is 50), "bool" with n in   *)
(* {0, 1}, "list" with the items kids[i].v, "obj" (a dict) with the        *)
(* members kids[i] = [k, v] in insertion order.                            *)
(***************************************************************************)
JStr(s) == [t |-> "str", s |-> s, n |-> 0, kids |-> <<>>]

JInt(n) == [t |-> "int", s |-> <<>>, n |-> n, kids |-> <<>>]

JFloat(h) == [t |-> "float", s |-> <<>>, n |-> h, kids |-> <<>>]

JBool(b) == [t |-> "bool", s |-> <<>>, n |-> IF b THEN 1 ELSE 0, kids |-> <<>>]

JList(items) ==
  [t |-> "list", s |-> <<>>, n |-> 0,
   kids |-> [i \in 1..Len(items) |-> [k |-> "", v |-> items[i]]]]

JObj(members) == [t |-> "obj", s |-> <<>>, n |-> 0, kids |-> members]

JNone == [t |-> "none", s |-> <<>>, n |-> 0, kids |-> <<>>]

\* The keys of a dict, as a set.
Keys(d) == {d[i].k : i \in 1..Len(d)}

\* key in d
Has(d, k) == \E i \in 1..Len(d) : d[i].k = k

\* d.get(k, default)
Get(d, k, default) ==
  IF Has(d, k) THEN d[CHOOSE i \in 1..Len(d) : d[i].k = k].v ELSE default

\* d[k] = v: the value replaced in place, or the member appended.
Put(d, k, v) ==
  IF Has(d, k)
  THEN [i \in 1..Len(d) |-> IF d[i].k = k THEN [k |-> k, v |-> v] ELSE d[i]]
  ELSE Append(d, [k |-> k, v |-> v])

(***************************************************************************)
(* JSON TEXT.  json.dumps(..., ensure_ascii=False, separators=(',', ':'))  *)
(* gives a sequence of atoms [t, c, n]: punctuation "p" (c one of          *)
(* { } [ ] , : and Q, the quote that delimits a string), a run of string   *)
(* characters "ch", a run of escaped characters "esc" (backslash and the   *)
(* character), a number "int" or "float", a literal "lit".                 *)
(***************************************************************************)
P(c) == [t |-> "p", c |-> c, n |-> 1]

DumpStr(s) ==
  <<P("Q")>>
  \o [i \in 1..Len(s) |->
        [t |-> IF s[i].c = "q" THEN "esc" ELSE "ch", c |-> s[i].c, n |-> s[i].n]]
  \o <<P("Q")>>

RECURSIVE Dump(_), DumpKids(_, _, _)
\* json.dumps of a value, compact separators.
Dump(v) ==
  CASE v.t = "str" -> DumpStr(v.s)
    [] v.t = "int" -> <<[t |-> "int", c |-> "", n |-> v.n]>>
    [] v.t = "float" -> <<[t |-> "float", c |-> "", n |-> v.n]>>
    [] v.t = "bool" -> <<[t |-> "lit", c |-> IF v.n = 1 THEN "true" ELSE "false", n |-> 1]>>
    [] v.t = "list" -> <<P("[")>> \o DumpKids(v.kids, 1, FALSE) \o <<P("]")>>
    [] v.t = "obj" -> <<P("{")>> \o DumpKids(v.kids, 1, TRUE) \o <<P("}")>>
    [] OTHER -> <<[t |-> "lit", c |-> "null", n |-> 1]>>

DumpKids(kids, i, keyed) ==
  IF i > Len(kids) THEN <<>>
  ELSE (IF i > 1 THEN <<P(",")>> ELSE <<>>)
       \o (IF keyed THEN DumpStr(Word(kids[i].k)) \o <<P(":")>> ELSE <<>>)
       \o Dump(kids[i].v)
       \o DumpKids(kids, i + 1, keyed)

\* json.dumps(d, ensure_ascii=False, separators=(',', ':')) of a dict.
dumps(d) == Dump(JObj(d))

\* Characters of one atom of a JSON text.
AtomChars(a) ==
  CASE a.t = "p" -> 1
    [] a.t = "ch" -> a.n * WordLen(a.c)
    [] a.t = "esc" -> a.n * 2
    [] a.t = "int" -> Digits(a.n)
    [] a.t = "float" -> Digits(a.n \div 100) + (IF a.n % 10 = 0 THEN 2 ELSE 3)
    [] a.t = "lit" -> IF a.c = "false" THEN 5 ELSE 4
    [] OTHER -> a.n

\* UTF-8 bytes of one atom of a JSON text.
AtomBytes(a) == IF a.t = "ch" THEN a.n * ByteLen(a.c) ELSE AtomChars(a)

RECURSIVE TextLen(_)
\* len(text) of a JSON text: characters.
TextLen(text) ==
  IF text = <<>> THEN 0
  ELSE IF Len(text) = 1 THEN AtomChars(text[1])
  ELSE LET mid == Len(text) \div 2
       IN TextLen(SubSeq(text, 1, mid)) + TextLen(SubSeq(text, mid + 1, Len(text)))

RECURSIVE TextBytes(_)
\* len(text.encode('utf-8')): the bytes the image file holds.
TextBytes(text) ==
  IF text = <<>> THEN 0
  ELSE IF Len(text) = 1 THEN AtomBytes(text[1])
  ELSE LET mid == Len(text) \div 2
       IN TextBytes(SubSeq(text, 1, mid)) + TextBytes(SubSeq(text, mid + 1, Len(text)))

(***************************************************************************)
(* json.loads: a recursive-descent parse of the atoms.  A result is        *)
(* [ok, v, next]: the value read and the index after it.                   *)
(***************************************************************************)
IsP(a, c) == a.t = "p" /\ a.c = c

\* JSON whitespace between tokens: a run of spaces outside a string.
IsWs(a) == a.t = "ch" /\ a.c = "sp"

RECURSIVE SkipWs(_, _)
SkipWs(text, i) ==
  IF i <= Len(text) /\ IsWs(text[i]) THEN SkipWs(text, i + 1) ELSE i

ParseFail == [ok |-> FALSE, v |-> JNone, next |-> 0]

RECURSIVE NextQuote(_, _)
\* The first index from j on that holds a quote, 0 when none.
NextQuote(text, j) ==
  IF j > Len(text) THEN 0
  ELSE IF IsP(text[j], "Q") THEN j
  ELSE IF text[j].t \notin {"ch", "esc"} THEN 0
  ELSE NextQuote(text, j + 1)

\* The index of the quote that closes the string opened at i, 0 when there is
\* none before the text ends or something that cannot be in a string.
ClosingQuote(text, i) == NextQuote(text, i + 1)

\* A string token: the runs between two quotes, escapes undone.
ParseString(text, i) ==
  LET j == ClosingQuote(text, i)
  IN IF j = 0 \/ \E m \in (i + 1)..(j - 1) : text[m].t \notin {"ch", "esc"}
     THEN ParseFail
     ELSE [ok |-> TRUE,
           v |-> JStr([m \in 1..(j - i - 1) |-> Run(text[i + m].c, text[i + m].n)]),
           next |-> j + 1]

\* The dict key a parsed string stands for.
KeyOf(s) == IF Len(s) = 1 /\ s[1].n = 1 THEN s[1].c ELSE "?"

RECURSIVE ParseValue(_, _), ParseMembers(_, _, _), ParseItems(_, _, _)
ParseValue(text, i0) ==
  LET i == SkipWs(text, i0)
  IN IF i > Len(text) THEN ParseFail
     ELSE LET a == text[i]
          IN CASE IsP(a, "Q") -> ParseString(text, i)
               [] a.t = "int" -> [ok |-> TRUE, v |-> JInt(a.n), next |-> i + 1]
               [] a.t = "float" -> [ok |-> TRUE, v |-> JFloat(a.n), next |-> i + 1]
               [] a.t = "lit" /\ a.c \in {"true", "false"} ->
                    [ok |-> TRUE, v |-> JBool(a.c = "true"), next |-> i + 1]
               [] a.t = "lit" /\ a.c = "null" ->
                    [ok |-> TRUE, v |-> JNone, next |-> i + 1]
               [] IsP(a, "{") ->
                    LET j == SkipWs(text, i + 1)
                    IN IF j <= Len(text) /\ IsP(text[j], "}")
                       THEN [ok |-> TRUE, v |-> JObj(<<>>), next |-> j + 1]
                       ELSE ParseMembers(text, j, <<>>)
               [] IsP(a, "[") ->
                    LET j == SkipWs(text, i + 1)
                    IN IF j <= Len(text) /\ IsP(text[j], "]")
                       THEN [ok |-> TRUE, v |-> JList(<<>>), next |-> j + 1]
                       ELSE ParseItems(text, j, <<>>)
               [] OTHER -> ParseFail

\* "key":value members up to the closing brace; a repeated key keeps the last.
ParseMembers(text, i, acc) ==
  IF i > Len(text) \/ ~IsP(text[i], "Q") THEN ParseFail
  ELSE LET key == ParseString(text, i)
           c == IF key.ok THEN SkipWs(text, key.next) ELSE 0
       IN IF ~key.ok \/ c > Len(text) \/ ~IsP(text[c], ":") THEN ParseFail
          ELSE LET val == ParseValue(text, c + 1)
                   e == IF val.ok THEN SkipWs(text, val.next) ELSE 0
               IN IF ~val.ok \/ e > Len(text) THEN ParseFail
                  ELSE LET d == Put(acc, KeyOf(key.v.s), val.v)
                       IN IF IsP(text[e], "}")
                          THEN [ok |-> TRUE, v |-> JObj(d), next |-> e + 1]
                          ELSE IF IsP(text[e], ",")
                          THEN ParseMembers(text, SkipWs(text, e + 1), d)
                          ELSE ParseFail

\* The items of a list up to the closing bracket.
ParseItems(text, i, acc) ==
  LET val == ParseValue(text, i)
      e == IF val.ok THEN SkipWs(text, val.next) ELSE 0
  IN IF ~val.ok \/ e > Len(text) THEN ParseFail
     ELSE IF IsP(text[e], "]")
     THEN [ok |-> TRUE, v |-> JList(Append(acc, val.v)), next |-> e + 1]
     ELSE IF IsP(text[e], ",") THEN ParseItems(text, e + 1, Append(acc, val.v))
     ELSE ParseFail

\* json.loads(text): [ok, v]; ok = FALSE is json.JSONDecodeError.
loads(text) ==
  LET r == ParseValue(text, 1)
  IN IF r.ok /\ SkipWs(text, r.next) > Len(text)
     THEN [ok |-> TRUE, v |-> r.v]
     ELSE [ok |-> FALSE, v |-> JNone]

\* text.strip() of a decoded chunk: whitespace runs at both ends removed.
StripText(text) ==
  LET lo == IF text # <<>> /\ IsWs(text[1]) THEN 2 ELSE 1
      hi == IF text # <<>> /\ IsWs(text[Len(text)]) THEN Len(text) - 1 ELSE Len(text)
  IN SubSeq(text, lo, hi)

(***************************************************************************)
(* BOUNDS of the model.                                                    *)
(***************************************************************************)
\* Images of one job (len(job.results)) are 0..MaxImages.
MaxImages == 2

\* Jobs in the queue (model.jobs._entries).
MaxJobs == 1

\* Save operations in one behaviour (job-finished saves, hook and bulk calls).
MaxCalls == 2

\* Images handed to img.save in one behaviour, over all save operations.
MaxWrites == 2

\* datetime.now() returns a millisecond in 0..MaxClock.
MaxClock == 1

\* The jobs of a history the bulk operations run on.
HistoryLen == 2

(***************************************************************************)
(* PROGRAM CONSTANTS.                                                      *)
(***************************************************************************)
\* "Limit total JSON size (max 4KB)": if len(metadata_json) > 4000.
MaxJsonLen == 4000

\* prompt = str(prompt).replace(' ', '_')[:50]
PrefixLen == 50

\* if len(clean_value) > 500: clean_value = clean_value[:497] + "..."
MaxParamLen == 500

ParamKeep == 497

(***************************************************************************)
(* JOBS.  A job is [id, kind, name, prompt, seed, strength, metadata, n]:  *)
(* strength in hundredths, metadata the dict job.params.metadata, n the    *)
(* number of images in job.results.  Every job of the queue is finished.   *)
(***************************************************************************)
Kinds == {"diffusion", "animation", "upscaling", "control"}

SaveKinds == {"diffusion", "animation", "upscaling"}

Long(c) == <<Run(c, 1900)>>

LoraEntry(name, strength, enabled) ==
  JObj(<<[k |-> "name", v |-> JStr(name)],
         [k |-> "strength", v |-> JFloat(strength)],
         [k |-> "enabled", v |-> JBool(enabled)]>>)

\* The job parameters the model draws from: [kind, name, prompt, seed, strength, metadata].
Templates ==
  { \* a plain text-to-image job
    [kind |-> "diffusion", name |-> <<Run("a", 3)>>, prompt |-> <<Run("a", 3)>>,
     seed |-> 7, strength |-> 100,
     metadata |-> <<[k |-> "negative_prompt", v |-> JStr(<<Run("a", 2)>>)],
                    [k |-> "style", v |-> JStr(<<Run("a", 5)>>)]>>],
    \* a refine job whose prompt is "BEST FRIEND" with a quoted word
    [kind |-> "diffusion",
     name |-> <<Run("a", 4), Run("sp", 1), Run("a", 2), Run("IEND", 1)>>,
     prompt |-> <<Run("a", 4), Run("sp", 1), Run("a", 2), Run("IEND", 1), Run("q", 2)>>,
     seed |-> 12, strength |-> 50,
     metadata |-> <<[k |-> "steps", v |-> JInt(20)]>>],
    \* an upscale of strength 0.5 with loras, one of them disabled
    [kind |-> "upscaling", name |-> <<Run("a", 60)>>, prompt |-> <<Run("a", 60)>>,
     seed |-> 3, strength |-> 50,
     metadata |-> <<[k |-> "loras",
                     v |-> JList(<<LoraEntry(<<Run("a", 4)>>, 75, TRUE),
                                   LoraEntry(<<Run("a", 2)>>, 100, FALSE)>>)],
                    [k |-> "steps", v |-> JStr(Long("a"))]>>],
    \* an animation whose prompt is 1900 two-byte characters
    [kind |-> "animation", name |-> Long("u2"), prompt |-> Long("u2"),
     seed |-> 1, strength |-> 100, metadata |-> <<>>],
    \* a short prompt with a negative prompt of 5700 characters
    [kind |-> "diffusion", name |-> <<Run("a", 3)>>, prompt |-> <<Run("a", 3)>>,
     seed |-> 5, strength |-> 50,
     metadata |-> <<[k |-> "negative_prompt", v |-> JStr(<<Run("a", 5700)>>)]>>],
    \* a prompt of 5700 characters
    [kind |-> "diffusion", name |-> <<Run("a", 5700)>>, prompt |-> <<Run("a", 5700)>>,
     seed |-> 9, strength |-> 100, metadata |-> <<>>],
    \* a control-layer job
    [kind |-> "control", name |-> <<Run("a", 2)>>, prompt |-> <<Run("a", 2)>>,
     seed |-> 4, strength |-> 100, metadata |-> <<>>] }

\* Job parameters that exercise the lora list and the other metadata keys of
\* a record: [kind, name, prompt, seed, strength, metadata].
RecordTemplates ==
  { \* two enabled loras around a disabled one
    [kind |-> "diffusion", name |-> <<Run("a", 3)>>, prompt |-> <<Run("a", 3)>>,
     seed |-> 21, strength |-> 100,
     metadata |-> <<[k |-> "loras",
                     v |-> JList(<<LoraEntry(<<Run("a", 4)>>, 75, TRUE),
                                   LoraEntry(<<Run("a", 2)>>, 100, FALSE),
                                   LoraEntry(<<Run("a", 3)>>, 50, TRUE)>>)]>>],
    \* every lora disabled
    [kind |-> "diffusion", name |-> <<Run("a", 3)>>, prompt |-> <<Run("a", 3)>>,
     seed |-> 22, strength |-> 100,
     metadata |-> <<[k |-> "loras",
                     v |-> JList(<<LoraEntry(<<Run("a", 2)>>, 100, FALSE),
                                   LoraEntry(<<Run("a", 4)>>, 75, FALSE)>>)]>>],
    \* entries without a flag, without a name, that are no dict, flagged 0
    [kind |-> "diffusion", name |-> <<Run("a", 3)>>, prompt |-> <<Run("a", 3)>>,
     seed |-> 23, strength |-> 50,
     metadata |-> <<[k |-> "loras",
                     v |-> JList(<<JObj(<<[k |-> "name", v |-> JStr(<<Run("a", 4)>>)],
                                          [k |-> "strength", v |-> JFloat(75)]>>),
                                   JStr(<<Run("a", 2)>>),
                                   JObj(<<[k |-> "strength", v |-> JFloat(50)],
                                          [k |-> "enabled", v |-> JBool(TRUE)]>>),
                                   JObj(<<[k |-> "name", v |-> JStr(<<Run("a", 5)>>)],
                                          [k |-> "strength", v |-> JFloat(100)],
                                          [k |-> "enabled", v |-> JInt(0)]>>)>>)]>>],
    \* loras that is a string
    [kind |-> "animation", name |-> <<Run("a", 3)>>, prompt |-> <<Run("a", 3)>>,
     seed |-> 24, strength |-> 100,
     metadata |-> <<[k |-> "loras", v |-> JStr(<<Run("a", 5)>>)]>>],
    \* keys named like fields of the record, a value of 501 characters
    [kind |-> "diffusion", name |-> <<Run("a", 3)>>, prompt |-> <<Run("a", 3)>>,
     seed |-> 25, strength |-> 100,
     metadata |-> <<[k |-> "steps", v |-> JInt(20)],
                    [k |-> "seed", v |-> JInt(99)],
                    [k |-> "sampler", v |-> JStr(<<Run("a", 3)>>)],
                    [k |-> "prompt", v |-> JStr(<<Run("a", 2)>>)],
                    [k |-> "cfg", v |-> JStr(<<Run("sp", 1), Run("a", 501)>>)]>>],
    \* a value of 500 characters between a space and a control character
    [kind |-> "upscaling", name |-> <<Run("a", 3)>>, prompt |-> <<Run("a", 3)>>,
     seed |-> 26, strength |-> 50,
     metadata |-> <<[k |-> "cfg",
                     v |-> JStr(<<Run("sp", 1), Run("a", 500), Run("ctl", 1)>>)],
                    [k |-> "steps", v |-> JStr(Long("a"))]>>] }

\* The jobs the panel and the history dialog get to show.
PresentTemplates ==
  RecordTemplates \cup
  { \* an empty lora list between two plain values
    [kind |-> "diffusion", name |-> <<Run("a", 3)>>, prompt |-> <<Run("a", 3)>>,
     seed |-> 27, strength |-> 100,
     metadata |-> <<[k |-> "negative_prompt", v |-> JStr(<<Run("a", 2)>>)],
                    [k |-> "loras", v |-> JList(<<>>)],
                    [k |-> "style", v |-> JStr(<<Run("a", 5)>>)]>>],
    \* one enabled lora
    [kind |-> "upscaling", name |-> <<Run("a", 3)>>, prompt |-> <<Run("a", 3)>>,
     seed |-> 28, strength |-> 100,
     metadata |-> <<[k |-> "steps", v |-> JInt(20)],
                    [k |-> "loras", v |-> JList(<<LoraEntry(<<Run("a", 5)>>, 50, TRUE)>>)]>>] }

\* The one job in the queue of the other Model.
OtherJob ==
  [id |-> 2, kind |-> "diffusion", name |-> <<Run("a", 3)>>, prompt |-> <<Run("a", 3)>>,
   seed |-> 29, strength |-> 100,
   metadata |-> <<[k |-> "loras", v |-> JList(<<LoraEntry(<<Run("a", 2)>>, 100, FALSE),
                                                LoraEntry(<<Run("a", 3)>>, 75, TRUE)>>)]>>,
   n |-> 1]

\* str(value) of a metadata value.
ToStr(v) ==
  CASE v.t = "str" -> v.s
    [] v.t = "int" -> <<Run("0", Digits(v.n))>>
    [] OTHER -> <<Run("a", 1)>>

(***************************************************************************)
(* THE RECORD a save embeds.                                               *)
(***************************************************************************)
ReservedKeys == {"prompt", "negative_prompt", "style", "checkpoint", "sampler", "loras"}

Truthy(v) ==
  CASE v.t = "bool" -> v.n = 1
    [] v.t = "int" -> v.n # 0
    [] v.t = "str" -> v.s # <<>>
    [] OTHER -> TRUE

\* The base fields with the images of a batch numbered from 1.
BaseFields_from_one(job, i, image_type) ==
  <<[k |-> "prompt", v |-> JStr(_clean_metadata_value(job.prompt))],
    [k |-> "negative_prompt",
     v |-> JStr(_clean_metadata_value(ToStr(Get(job.metadata, "negative_prompt", JStr(<<>>)))))],
    [k |-> "seed", v |-> JInt(job.seed)],
    [k |-> "strength", v |-> JFloat(job.strength)],
    [k |-> "style",
     v |-> JStr(_clean_metadata_value(ToStr(Get(job.metadata, "style", JStr(<<>>)))))],
    [k |-> "checkpoint",
     v |-> JStr(_clean_metadata_value(ToStr(Get(job.metadata, "checkpoint", JStr(<<>>)))))],
    [k |-> "sampler",
     v |-> JStr(_clean_metadata_value(ToStr(Get(job.metadata, "sampler", JStr(<<>>)))))],
    [k |-> "generation_type", v |-> JStr(Word(image_type))],
    [k |-> "job_kind", v |-> JStr(Word(job.kind))],
    [k |-> "timestamp", v |-> JStr(Word("YYYY-MM-DD HH:MM:SS"))],
    [k |-> "batch_index", v |-> JInt(i + 1)],
    [k |-> "total_images", v |-> JInt(job.n)]>>

\* The base fields: persistence.py lines 321-335.
BaseFields(job, i, image_type) ==
  <<[k |-> "prompt", v |-> JStr(_clean_metadata_value(job.prompt))],
    [k |-> "negative_prompt",
     v |-> JStr(_clean_metadata_value(ToStr(Get(job.metadata, "negative_prompt", JStr(<<>>)))))],
    [k |-> "seed", v |-> JInt(job.seed)],
    [k |-> "strength", v |-> JFloat(job.strength)],
    [k |-> "style",
     v |-> JStr(_clean_metadata_value(ToStr(Get(job.metadata, "style", JStr(<<>>)))))],
    [k |-> "checkpoint",
     v |-> JStr(_clean_metadata_value(ToStr(Get(job.metadata, "checkpoint", JStr(<<>>)))))],
    [k |-> "sampler",
     v |-> JStr(_clean_metadata_value(ToStr(Get(job.metadata, "sampler", JStr(<<>>)))))],
    [k |-> "generation_type", v |-> JStr(Word(image_type))],
    [k |-> "job_kind", v |-> JStr(Word(job.kind))],
    [k |-> "timestamp", v |-> JStr(Word("YYYY-MM-DD HH:MM:SS"))],
    [k |-> "batch_index", v |-> JInt(i)],
    [k |-> "total_images", v |-> JInt(job.n)]>>

RECURSIVE LoraList_all(_, _)
\* Every dict entry of the job's lora list as {name, strength}, whatever its flag.
LoraList_all(loras, x) ==
  IF x > Len(loras) THEN <<>>
  ELSE LET lora == loras[x].v
       IN (IF lora.t = "obj"
           THEN <<JObj(<<[k |-> "name",
                          v |-> JStr(_clean_metadata_value(
                                       ToStr(Get(lora.kids, "name", JStr(Word("Unknown"))))))],
                         [k |-> "strength",
                          v |-> Get(lora.kids, "strength", JFloat(100))]>>)>>
           ELSE <<>>)
          \o LoraList_all(loras, x + 1)

RECURSIVE LoraList(_, _)
\* The enabled entries of the job's lora list, each as {name, strength}, in order.
LoraList(loras, x) ==
  IF x > Len(loras) THEN <<>>
  ELSE LET lora == loras[x].v
       IN (IF lora.t = "obj" /\ Truthy(Get(lora.kids, "enabled", JBool(TRUE)))
           THEN <<JObj(<<[k |-> "name",
                          v |-> JStr(_clean_metadata_value(
                                       ToStr(Get(lora.kids, "name", JStr(Word("Unknown"))))))],
                         [k |-> "strength",
                          v |-> Get(lora.kids, "strength", JFloat(100))]>>)>>
           ELSE <<>>)
          \o LoraList(loras, x + 1)

\* persistence.py lines 338-350.
WithLoras(d, job) ==
  IF ~Has(job.metadata, "loras") THEN d
  ELSE LET loras == Get(job.metadata, "loras", JNone)
       IN IF loras.t = "list"
          THEN Put(d, "loras", JList(LoraList(loras.kids, 1)))
          ELSE Put(d, "loras", JStr(ToStr(loras)))

\* The value of a param_ entry that is cleaned but never cut.
ParamValue_uncut(value) == _clean_metadata_value(ToStr(value))

\* The value of one param_ entry: cleaned, cut to 497 characters and "...".
ParamValue(value) ==
  LET clean_value == _clean_metadata_value(ToStr(value))
  IN IF StrLen(clean_value) > MaxParamLen
     THEN Concat(Take(clean_value, ParamKeep), <<Run(".", 3)>>)
     ELSE clean_value

RECURSIVE WithParams(_, _, _)
\* persistence.py lines 353-359.
WithParams(d, md, x) ==
  IF x > Len(md) THEN d
  ELSE WithParams(IF md[x].k \notin ReservedKeys
                  THEN Put(d, "param_" \o md[x].k, JStr(ParamValue(md[x].v)))
                  ELSE d,
                  md, x + 1)

\* all_metadata of ModelSync._auto_save_images and _auto_save_images_from_history.
all_metadata(job, i, image_type) ==
  WithParams(WithLoras(BaseFields(job, i, image_type), job), job.metadata, 1)

\* MetadataFormatter.prepare_for_save (utils.py): the GenerationRecord of the
\* specification, section 3 and 4.3, which has the fields of all_metadata.
prepare_for_save(job, i, image_type) ==
  WithParams(WithLoras(BaseFields(job, i, image_type), job), job.metadata, 1)

\* A reduced record that also keeps the negative prompt.
essential_with_negative(all) ==
  <<[k |-> "prompt", v |-> Get(all, "prompt", JStr(<<>>))],
    [k |-> "negative_prompt", v |-> Get(all, "negative_prompt", JStr(<<>>))],
    [k |-> "seed", v |-> Get(all, "seed", JInt(0))],
    [k |-> "strength", v |-> Get(all, "strength", JFloat(100))],
    [k |-> "generation_type", v |-> Get(all, "generation_type", JStr(<<>>))],
    [k |-> "timestamp", v |-> Get(all, "timestamp", JStr(<<>>))],
    [k |-> "truncated", v |-> JBool(TRUE)]>>

\* The reduced record that replaces a record over the size limit.
essential_metadata(all) ==
  <<[k |-> "prompt", v |-> Get(all, "prompt", JStr(<<>>))],
    [k |-> "seed", v |-> Get(all, "seed", JInt(0))],
    [k |-> "strength", v |-> Get(all, "strength", JFloat(100))],
    [k |-> "generation_type", v |-> Get(all, "generation_type", JStr(<<>>))],
    [k |-> "timestamp", v |-> Get(all, "timestamp", JStr(<<>>))],
    [k |-> "truncated", v |-> JBool(TRUE)]>>

\* Whether the code replaces the record: len(metadata_json) > 4000.
OverLimit(text) == TextLen(text) > MaxJsonLen

\* metadata_json: the dumped record, or the dumped essential record.
metadata_json(all) ==
  IF OverLimit(dumps(all)) THEN dumps(essential_metadata(all)) ELSE dumps(all)

\* A dict that carries the payload under a second keyword as well.
metadata_dict_two_keys(text) ==
  <<[k |-> "metadata", v |-> text], [k |-> "AI_METADATA_JSON", v |-> text]>>

\* metadata = {"metadata": metadata_json}: the dict handed to img.save.
metadata_dict(text) == <<[k |-> "metadata", v |-> text]>>

(***************************************************************************)
(* CLASSIFICATION.                                                         *)
(***************************************************************************)
\* ImageTypeDetector.get_image_type (utils.py), as the specification's classify.
get_image_type(job) ==
  IF job.kind = "upscaling" THEN "Upscale"
  ELSE IF job.strength < 100 THEN "Refine"
  ELSE "Generate"

\* image_type of ModelSync._auto_save_images and _auto_save_images_from_history.
image_type_of(job) ==
  IF job.kind = "upscaling" THEN "Upscale"
  ELSE IF job.strength < 100 THEN "Refine"
  ELSE "ImgGenerate"

(***************************************************************************)
(* PATHS.  A path is [dir, file]: the folders from the base folder down,   *)
(* and the file name as text.                                              *)
(***************************************************************************)
BaseFolder == "generated_images"

DocUnsaved == [stem |-> "", suffix |-> ""]

DocFiles == {DocUnsaved, [stem |-> "art", suffix |-> ".kra"]}

\* doc_name: Path(doc_filename).stem, or the sentinel of an unsaved document.
doc_name(filename, sentinel) ==
  IF filename # DocUnsaved THEN filename.stem ELSE sentinel

DigitChar(d) == <<"0", "1", "2", "3", "4", "5", "6", "7", "8", "9">>[d + 1]

RECURSIVE DigitStr(_)
\* str(n) of a natural number.
DigitStr(n) ==
  IF n < 10 THEN <<Run(DigitChar(n), 1)>>
  ELSE Concat(DigitStr(n \div 10), <<Run(DigitChar(n % 10), 1)>>)

\* datetime.now().strftime('%Y%m%d-%H%M%S-%f')[:-3] at millisecond t of one second.
timestamp(t) ==
  Concat(Word("YYYYMMDD-HHMMSS-"),
         Concat(<<Run(DigitChar(t \div 100), 1)>>,
                Concat(<<Run(DigitChar((t \div 10) % 10), 1)>>,
                       <<Run(DigitChar(t % 10), 1)>>)))

\* A file name without the index of the image in its batch.
filename_without_index(job, t, image_type, i) ==
  LET prompt == Take(Replace(job.name, "sp", "_"), PrefixLen)
  IN Concat(prompt,
     Concat(<<Run("_", 1)>>,
     Concat(timestamp(t),
     Concat(<<Run("_", 1)>>,
     Concat(Word(image_type), Word(".png"))))))

\* filename = f"{prompt}_{timestamp}_{image_type}_{i}.png"
filename(job, t, image_type, i) ==
  LET prompt == Take(Replace(job.name, "sp", "_"), PrefixLen)
  IN Concat(prompt,
     Concat(<<Run("_", 1)>>,
     Concat(timestamp(t),
     Concat(<<Run("_", 1)>>,
     Concat(Word(image_type),
     Concat(<<Run("_", 1)>>,
     Concat(DigitStr(i), Word(".png"))))))))

PathOf(doc, image_type, file) ==
  [dir |-> <<BaseFolder, doc, image_type>>, file |-> file]

(***************************************************************************)
(* STATE.                                                                  *)
(***************************************************************************)
VARIABLES
  auto_save_generated,  \* settings.auto_save_generated
  doc_filename,         \* model.document.filename
  folder_ok,            \* whether base_folder.mkdir succeeds (the file system)
  blocked,              \* the category folders type_folder.mkdir cannot make
  history,              \* ModelSync._history: the ids of the jobs with an entry
  panel,                \* the metadata panel: its model, bindings, text and sizes
  sync,                 \* ModelSync: its history entries, slots and memory use
  installed,            \* the installer's files: the three targets and the backup
  jobs,                 \* model.jobs._entries: the finished jobs, in order
  disk,                 \* the image files written: a set of files, one per path
  calls,                \* the save operations so far, each with what it returned
  shown                 \* what the last decode of an image handed to the dialog

\* The state of the panel, of the history store and of the installer.
others == <<panel, sync, installed>>

vars == <<auto_save_generated, doc_filename, folder_ok, blocked, history, jobs, disk, calls,
          shown, others>>

\* What img.save does with one image: writes it, raises, or reports failure.
Outcomes == {"ok", "raise", "fail"}

Clock == 0..MaxClock

\* What the writer does with each of k images, and the clock readings for them.
Draws(k) == [1..k -> Outcomes]

Times(k) == [1..k -> Clock]

\* A handler that returns nothing (None).
NoCount == 0 - 1

NoFile == [path |-> PathOf("", "", <<>>), chunks |-> <<>>, by |-> "", job |-> 0,
           i |-> 0, call |-> 0]

NothingShown == [via |-> "none", file |-> NoFile, metadata |-> <<>>, raised |-> FALSE]

(***************************************************************************)
(* THE IMAGE WRITER, Image.save(path, metadata=...) of image.py, from the  *)
(* specification's interface save(path, pixelData, sideChannelMetadata):   *)
(* the file at path is created or replaced, one plain text chunk per       *)
(* entry of the dict.                                                      *)
(***************************************************************************)
ImageSave(d, path, metadata, tag) ==
  {f \in d : f.path # path}
    \cup {[path |-> path, chunks |-> metadata, by |-> tag.by, job |-> tag.job,
           i |-> tag.i, call |-> tag.call]}

RECURSIVE WriteUntilRaise(_, _, _)
\* A loop without the try/except around one image: the first exception ends it.
WriteUntilRaise(d, att, x) ==
  IF x > Len(att) \/ att[x].out = "raise" THEN d
  ELSE WriteUntilRaise(IF att[x].out = "ok"
                       THEN ImageSave(d, att[x].path, att[x].metadata, att[x])
                       ELSE d,
                       att, x + 1)

RECURSIVE WriteAll(_, _, _)
\* The files after the attempts att[x..] in order: an attempt writes when img.save
\* neither raises nor reports failure.
WriteAll(d, att, x) ==
  IF x > Len(att) THEN d
  ELSE WriteAll(IF att[x].out = "ok"
                THEN ImageSave(d, att[x].path, att[x].metadata, att[x])
                ELSE d,
                att, x + 1)

\* What the log keeps of an attempt.
Logged(att) ==
  [x \in 1..Len(att) |->
     [job |-> att[x].job, i |-> att[x].i, t |-> att[x].t, path |-> att[x].path,
      out |-> att[x].out]]

\* The images handed to img.save so far.
Writes == Cardinality(UNION {{<<c, x>> : x \in 1..Len(calls[c].att)} : c \in 1..Len(calls)})

\* Whether the behaviour has room for a save operation that reaches k images.
Room(k) == Len(calls) < MaxCalls /\ Writes + k <= MaxWrites

\* What becomes of an exception that leaves a save operation, by its caller:
\* "dialog" when the caller shows it in a message box, "log" when the caller
\* catches it and only writes a log line, "propagated" when the caller has no
\* handler; "none" when the operation returned.
Reported(r, handling) == IF r.raised THEN handling ELSE "none"

\* The number of attempts that img.save did not leave by an exception.
NotRaised(att) == Cardinality({x \in 1..Len(att) : att[x].out # "raise"})

(***************************************************************************)
(* AutoSaveManager.save_job_images, auto_save.py lines 27-113.             *)
(***************************************************************************)
\* The folders the two mkdir calls ahead of the loops make: the base folder
\* and the folder of the document.
BaseDirs(sentinel) ==
  {<<BaseFolder>>, <<BaseFolder, doc_name(doc_filename, sentinel)>>}

\* The folders of the image types the attempts write to.
AttDirs(att) == {att[x].path.dir : x \in 1..Len(att)}

\* The call with the result r is over: its images are on the disk and the
\* call is in the log, with what became of its exception.
Performed(r, op, job, handling) ==
  /\ disk' = WriteAll(disk, r.att, 1)
  /\ calls' = Append(calls, [op |-> op, job |-> job, raised |-> r.raised, ret |-> r.ret,
                             att |-> Logged(r.att), dirs |-> r.dirs,
                             reported |-> Reported(r, handling)])

\* What a save operation that got to its loop returns: the attempts, the
\* folders made for them, and ret, the count of the attempts that did not
\* raise where the operation counts them.
Looped(att, sentinel, raised, ret) ==
  [raised |-> raised, ret |-> ret, att |-> att, dirs |-> BaseDirs(sentinel) \cup AttDirs(att)]

\* The result of a loop that counts.
Counted(att, sentinel) == Looped(att, sentinel, FALSE, NotRaised(att))

\* The images a save loop reaches out of n: none when auto-save is off or the
\* folder cannot be made (the early returns of lines 32 and 61).
Reached(n) == IF auto_save_generated /\ folder_ok THEN n ELSE 0

\* The loop over job.results, lines 66-111: one attempt per image.
JobAttempts(job, outs, ts, off, callno) ==
  LET image_type == get_image_type(job)
      doc == doc_name(doc_filename, "unsaved_document")
      att == [x \in 1..job.n |->
               [by |-> "save_job_images", job |-> job.id, i |-> x - 1, call |-> callno,
                t |-> ts[off + x],
                path |-> PathOf(doc, image_type,
                                filename(job, ts[off + x], image_type, x - 1)),
                metadata |-> metadata_dict(
                               metadata_json(prepare_for_save(job, x - 1, image_type))),
                out |-> outs[off + x]]]
  IN SubSeq(att, 1, job.n)

\* The call with the folders made ahead of the test of the setting.
save_job_images_mkdir_first(job, outs, ts, off, callno) ==
  IF ~auto_save_generated
  THEN [raised |-> FALSE, ret |-> 0, att |-> <<>>, dirs |-> BaseDirs("unsaved_document")]
  ELSE IF job.n = 0 THEN [raised |-> FALSE, ret |-> 0, att |-> <<>>, dirs |-> {}]
  ELSE IF ~folder_ok \/ get_image_type(job) \in blocked
  THEN [raised |-> TRUE, ret |-> NoCount, att |-> <<>>,
        dirs |-> IF folder_ok THEN BaseDirs("unsaved_document") ELSE {}]
  ELSE Counted(JobAttempts(job, outs, ts, off, callno), "unsaved_document")

\* [raised, ret, att, dirs] of one call: whether it raised, what it returned,
\* its attempts and the folders it made.
save_job_images(job, outs, ts, off, callno) ==
  IF ~auto_save_generated THEN [raised |-> FALSE, ret |-> 0, att |-> <<>>, dirs |-> {}]
  ELSE IF job.n = 0 THEN [raised |-> FALSE, ret |-> 0, att |-> <<>>, dirs |-> {}]
  ELSE IF ~folder_ok \/ get_image_type(job) \in blocked
  THEN [raised |-> TRUE, ret |-> NoCount, att |-> <<>>,
        dirs |-> IF folder_ok THEN BaseDirs("unsaved_document") ELSE {}]
  ELSE Counted(JobAttempts(job, outs, ts, off, callno), "unsaved_document")

\* auto_save_job_images(model, job): the call the auto-save hook makes.
SaveJobImages(j) ==
  /\ Room(Reached(jobs[j].n))
  /\ \E outs \in Draws(Reached(jobs[j].n)), ts \in Times(Reached(jobs[j].n)) :
       Performed(save_job_images(jobs[j], outs, ts, 0, Len(calls) + 1),
                 "save_job_images", jobs[j].id, "log")
  /\ UNCHANGED <<auto_save_generated, doc_filename, folder_ok, blocked, history, others, jobs,
               shown>>

(***************************************************************************)
(* AutoSaveManager.save_all_history_images, auto_save.py lines 119-155.    *)
(***************************************************************************)
RECURSIVE Offset(_, _)
\* The number of images of the jobs before the j-th.
Offset(js, j) == IF j <= 1 THEN 0 ELSE js[j - 1].n + Offset(js, j - 1)

TotalImages(js) == Offset(js, Len(js) + 1)

RECURSIVE SavedImages(_, _)
\* The images of the jobs from the j-th on that the loop of lines 145-152 saves.
SavedImages(js, j) ==
  IF j > Len(js) THEN 0
  ELSE (IF js[j].kind \in SaveKinds THEN js[j].n ELSE 0) + SavedImages(js, j + 1)

RECURSIVE HistoryResults_until_raise(_, _, _, _)
\* A loop over the jobs without the try/except of lines 147-152: the first job
\* whose save raises ends it.
HistoryResults_until_raise(j, outs, ts, callno) ==
  IF j > Len(jobs) THEN <<>>
  ELSE IF jobs[j].n > 0 /\ jobs[j].kind \in SaveKinds
  THEN LET r == save_job_images(jobs[j], outs, ts, Offset(jobs, j), callno)
       IN IF r.raised THEN <<r>>
          ELSE <<r>> \o HistoryResults_until_raise(j + 1, outs, ts, callno)
  ELSE HistoryResults_until_raise(j + 1, outs, ts, callno)

RECURSIVE HistoryResults(_, _, _, _)
\* The per-job results [raised, ret, att] of the loop of lines 145-152, in order.
HistoryResults(j, outs, ts, callno) ==
  IF j > Len(jobs) THEN <<>>
  ELSE (IF jobs[j].n > 0 /\ jobs[j].kind \in SaveKinds
        THEN <<save_job_images(jobs[j], outs, ts, Offset(jobs, j), callno)>>
        ELSE <<>>)
       \o HistoryResults(j + 1, outs, ts, callno)

RECURSIVE SumRet(_)
\* total_saved: a job whose save raised adds nothing.
SumRet(rs) ==
  IF rs = <<>> THEN 0
  ELSE (IF Head(rs).raised THEN 0 ELSE Head(rs).ret) + SumRet(Tail(rs))

RECURSIVE AllAttempts(_)
AllAttempts(rs) == IF rs = <<>> THEN <<>> ELSE Head(rs).att \o AllAttempts(Tail(rs))

save_all_history_images(outs, ts, callno) ==
  IF ~auto_save_generated THEN [raised |-> FALSE, ret |-> 0, att |-> <<>>, dirs |-> {}]
  ELSE IF ~folder_ok THEN [raised |-> TRUE, ret |-> NoCount, att |-> <<>>, dirs |-> {}]
  ELSE LET rs == HistoryResults(1, outs, ts, callno)
       IN Looped(AllAttempts(rs), "unsaved_document", FALSE, SumRet(rs))

\* auto_save_all_history_images(model): the "Download All Images" action.
SaveAllHistoryImages ==
  /\ Room(Reached(SavedImages(jobs, 1)))
  /\ \E outs \in Draws(Reached(TotalImages(jobs))), ts \in Times(Reached(TotalImages(jobs))) :
       Performed(save_all_history_images(outs, ts, Len(calls) + 1),
                 "save_all_history_images", 0, "dialog")
  /\ UNCHANGED <<auto_save_generated, doc_filename, folder_ok, blocked, history, others, jobs,
               shown>>

(***************************************************************************)
(* ModelSync._save_results and _auto_save_images, persistence.py 219-385.  *)
(***************************************************************************)
\* The loop of lines 302-385 (and of lines 532-613): one attempt per image.
SyncAttempts(job, outs, ts, off, callno, tag) ==
  LET image_type == image_type_of(job)
      doc == doc_name(doc_filename, "document_non_sauvegarde")
      att == [x \in 1..job.n |->
               [by |-> tag, job |-> job.id, i |-> x - 1, call |-> callno,
                t |-> ts[off + x],
                path |-> PathOf(doc, image_type,
                                filename(job, ts[off + x], image_type, x - 1)),
                metadata |-> metadata_dict(
                               metadata_json(all_metadata(job, x - 1, image_type))),
                out |-> outs[off + x]]]
  IN SubSeq(att, 1, job.n)

_auto_save_images(job, outs, ts, callno) ==
  IF ~folder_ok \/ image_type_of(job) \in blocked
  THEN [raised |-> TRUE, ret |-> NoCount, att |-> <<>>,
        dirs |-> IF folder_ok THEN BaseDirs("document_non_sauvegarde") ELSE {}]
  ELSE Looped(SyncAttempts(job, outs, ts, 0, callno, "_auto_save_images"),
              "document_non_sauvegarde", FALSE, NoCount)

\* Whether _save_results saves the images of the job: lines 220 and 233.
AutoSaves(job) == job.kind \in SaveKinds /\ job.n > 0 /\ auto_save_generated

\* The job of the parameters tpl with n result images.
JobOf(id, tpl, n) ==
  [id |-> id, kind |-> tpl.kind, name |-> tpl.name, prompt |-> tpl.prompt,
   seed |-> tpl.seed, strength |-> tpl.strength, metadata |-> tpl.metadata, n |-> n]

\* Whether the job has its entry in _history once _save_results is over, the
\* save of its images having raised or not: lines 220-230 annotate the results
\* and append the entry before line 234 saves the images.
Recorded_after_save(job, raised) == job.kind \in SaveKinds /\ job.n > 0 /\ ~raised

Recorded(job, raised) == job.kind \in SaveKinds /\ job.n > 0

\* _save_results with auto-save on: the images are saved and the job has its
\* entry in the history.
SavedAndRecorded(r, job) ==
  /\ Performed(r, "_auto_save_images", job.id, "propagated")
  /\ history' = IF Recorded(job, r.raised) THEN history \cup {job.id} ELSE history

\* A job of the parameters tpls finishes: it joins the queue and the
\* job_finished handler runs.
JobFinishedOf(tpls) ==
  /\ Len(jobs) < MaxJobs
  /\ \E tpl \in tpls, n \in 0..MaxImages :
       LET job == JobOf(Len(jobs) + 1, tpl, n)
       IN /\ jobs' = Append(jobs, job)
          /\ IF AutoSaves(job)
             THEN /\ Room(IF folder_ok THEN n ELSE 0)
                  /\ \E outs \in Draws(IF folder_ok THEN n ELSE 0),
                        ts \in Times(IF folder_ok THEN n ELSE 0) :
                       SavedAndRecorded(_auto_save_images(job, outs, ts, Len(calls) + 1), job)
             ELSE /\ history' = IF Recorded(job, FALSE)
                                 THEN history \cup {job.id} ELSE history
                  /\ UNCHANGED <<disk, calls>>
  /\ UNCHANGED <<auto_save_generated, doc_filename, folder_ok, blocked, others, shown>>

JobFinished == JobFinishedOf(Templates)

(***************************************************************************)
(* _auto_save_images_from_history, persistence.py lines 490-615.           *)
(***************************************************************************)
\* The job at which type_folder.mkdir of line 529 raises.
Blocks(job) == job.n > 0 /\ image_type_of(job) \in blocked

RECURSIVE FromHistoryAttempts(_, _, _, _)
\* The attempts of the loop of lines 516-613, which ends at a job that blocks.
FromHistoryAttempts(j, outs, ts, callno) ==
  IF j > Len(jobs) \/ Blocks(jobs[j]) THEN <<>>
  ELSE (IF jobs[j].n = 0 THEN <<>>
        ELSE SyncAttempts(jobs[j], outs, ts, Offset(jobs, j), callno,
                          "_auto_save_images_from_history"))
       \o FromHistoryAttempts(j + 1, outs, ts, callno)

_auto_save_images_from_history(outs, ts, callno) ==
  IF ~auto_save_generated THEN [raised |-> FALSE, ret |-> 0, att |-> <<>>, dirs |-> {}]
  ELSE IF ~folder_ok THEN [raised |-> TRUE, ret |-> NoCount, att |-> <<>>, dirs |-> {}]
  ELSE LET att == FromHistoryAttempts(1, outs, ts, callno)
       IN IF \E j \in 1..Len(jobs) : Blocks(jobs[j])
          THEN Looped(att, "document_non_sauvegarde", TRUE, NoCount)
          ELSE Counted(att, "document_non_sauvegarde")

SaveFromHistory ==
  /\ Room(Reached(TotalImages(jobs)))
  /\ \E outs \in Draws(Reached(TotalImages(jobs))), ts \in Times(Reached(TotalImages(jobs))) :
       Performed(_auto_save_images_from_history(outs, ts, Len(calls) + 1),
                 "_auto_save_images_from_history", 0, "propagated")
  /\ UNCHANGED <<auto_save_generated, doc_filename, folder_ok, blocked, history, others, jobs,
               shown>>

(***************************************************************************)
(* MetadataWidget._save_document_with_metadata, ui/generation.py 1475-1557 *)
(***************************************************************************)
ExportPath == [dir |-> <<"exports">>, file |-> Word("export.png")]

\* metadata of lines 1513-1534; the style is set when the model has one.
export_metadata(has_style) ==
  <<[k |-> "prompt", v |-> JStr(<<Run("a", 3)>>)],
    [k |-> "negative_prompt", v |-> JStr(<<>>)],
    [k |-> "seed", v |-> JInt(7)],
    [k |-> "strength", v |-> JFloat(100)]>>
  \o (IF has_style THEN <<[k |-> "style", v |-> JStr(<<Run("a", 5)>>)]>> ELSE <<>>)
  \o <<[k |-> "generation_type", v |-> JStr(Word("Document Export"))],
       [k |-> "job_kind", v |-> JStr(Word("document_export"))],
       [k |-> "timestamp", v |-> JStr(Word("YYYY-MM-DD HH:MM:SS"))],
       [k |-> "batch_index", v |-> JInt(0)],
       [k |-> "total_images", v |-> JInt(1)],
       [k |-> "document_width", v |-> JInt(512)],
       [k |-> "document_height", v |-> JInt(512)]>>

\* The dict handed to document_image.save: lines 1538-1541.
export_dict(has_style) == metadata_dict(dumps(export_metadata(has_style)))

SaveDocumentWithMetadata ==
  /\ Room(1)
  /\ \E has_style \in BOOLEAN, out \in Outcomes :
       LET att == <<[by |-> "_save_document_with_metadata", job |-> 0, i |-> 0,
                     call |-> Len(calls) + 1, t |-> 0, path |-> ExportPath,
                     metadata |-> export_dict(has_style), out |-> out]>>
       IN /\ disk' = WriteAll(disk, att, 1)
          /\ calls' = Append(calls, [op |-> "_save_document_with_metadata", job |-> 0,
                                     raised |-> FALSE, ret |-> NoCount,
                                     att |-> Logged(att), dirs |-> {},
                                     reported |-> "none"])
  /\ UNCHANGED <<auto_save_generated, doc_filename, folder_ok, blocked, history, others, jobs,
               shown>>

\* The user switches auto-save on or off in the settings.
SetAutoSave ==
  /\ auto_save_generated' = ~auto_save_generated
  /\ UNCHANGED <<doc_filename, folder_ok, blocked, history, others, jobs, disk, calls, shown>>

(***************************************************************************)
(* IMAGES FROM ELSEWHERE.  The file dialogs of the two readers open any    *)
(* PNG file.  A chunk of such a file is [type, k, method, v]: a plain      *)
(* text chunk "tEXt" or an international one "iTXt" with the text v, or a  *)
(* compressed one "zTXt" with the compression-method byte and, as v, one   *)
(* atom [t |-> "zlib", c |-> p] that is the zlib stream of the payload p   *)
(* ("corrupt": not a zlib stream).                                         *)
(***************************************************************************)
Byte(c) == [t |-> "ch", c |-> c, n |-> 1]

Payloads == {"record", "refine", "strength", "number", "list", "text"}

\* What a payload is as a JSON value ("text" is not JSON).
PayloadValue(p) ==
  CASE p = "record" ->
         JObj(<<[k |-> "prompt", v |-> JStr(Word("cat"))],
                [k |-> "seed", v |-> JInt(7)],
                [k |-> "strength", v |-> JFloat(100)],
                [k |-> "generation_type", v |-> JStr(Word("Generate"))]>>)
    [] p = "refine" ->
         JObj(<<[k |-> "seed", v |-> JInt(12)],
                [k |-> "generation_type", v |-> JStr(Word("Refine"))]>>)
    [] p = "strength" ->
         JObj(<<[k |-> "seed", v |-> JInt(3)],
                [k |-> "strength", v |-> JStr(Word("high"))]>>)
    [] p = "number" -> JInt(5)
    [] p = "list" -> JList(<<JInt(1)>>)
    [] OTHER -> JNone

PayloadText(p) == IF p = "text" THEN <<Byte("cat")>> ELSE Dump(PayloadValue(p))

ChunkKeywords == {"AI_METADATA_JSON", "AI", "AI_META", "metadata", "Software"}

Streams == Payloads \cup {"corrupt"}

Deflated(p) == <<[t |-> "zlib", c |-> p, n |-> 1]>>

ExternalChunks ==
  {[type |-> "tEXt", k |-> k, method |-> 0, v |-> PayloadText(p)] :
     k \in ChunkKeywords, p \in Payloads}
  \cup {[type |-> "zTXt", k |-> k, method |-> 0, v |-> Deflated(p)] :
          k \in ChunkKeywords, p \in Streams}
  \cup {[type |-> "zTXt", k |-> k, method |-> 1, v |-> Deflated(p)] :
          k \in ChunkKeywords, p \in {"record", "corrupt"}}
  \cup {[type |-> "iTXt", k |-> k, method |-> 0, v |-> PayloadText("record")] :
          k \in ChunkKeywords}

ExternalFile(chunks) ==
  [path |-> [dir |-> <<"downloads">>, file |-> Word("image.png")],
   chunks |-> chunks, by |-> "external", job |-> 0, i |-> 0, call |-> 0]

\* PNG files with at most two text chunks, of distinct keywords.
ExternalImages ==
  {ExternalFile(<<>>)}
  \cup {ExternalFile(<<c>>) : c \in ExternalChunks}
  \cup {ExternalFile(<<q[1], q[2]>>) :
          q \in {r \in ExternalChunks \X ExternalChunks : r[1].k # r[2].k}}

\* The type of a chunk; Image.save writes plain text chunks.
ChunkType(c) == IF "type" \in DOMAIN c THEN c.type ELSE "tEXt"

\* zlib.decompress(data): the payload of the stream data starts with; bytes
\* after the end of the stream are ignored, anything else is zlib.error.
decompress(data) ==
  IF data # <<>> /\ data[1].t = "zlib" /\ data[1].c # "corrupt"
  THEN [ok |-> TRUE, text |-> PayloadText(data[1].c)]
  ELSE [ok |-> FALSE, text |-> <<>>]

\* The keyword/text pairs QImageReader exposes: the text of plain and
\* international chunks, the inflated text of compressed ones; a compressed
\* chunk that cannot be inflated is dropped.
RECURSIVE reader_texts(_, _)
reader_texts(chunks, x) ==
  IF x > Len(chunks) THEN <<>>
  ELSE LET c == chunks[x]
           z == decompress(c.v)
       IN (IF ChunkType(c) # "zTXt" THEN <<[k |-> c.k, v |-> c.v]>>
           ELSE IF c.method = 0 /\ z.ok THEN <<[k |-> c.k, v |-> z.text]>>
           ELSE <<>>)
          \o reader_texts(chunks, x + 1)

(***************************************************************************)
(* MetadataPanel._extract_image_metadata, metadata_panel.py lines 412-447. *)
(* QImageReader.text(key) is the text of the chunk of that keyword.        *)
(***************************************************************************)
\* The text a value of the result dict shows for a raw chunk.
RawText(text) ==
  JStr([x \in 1..Len(text) |->
          Run(IF text[x].c = "" THEN text[x].t ELSE text[x].c,
              IF text[x].t \in {"ch", "esc"} THEN text[x].n ELSE 1)])

RECURSIVE OtherKeys(_, _, _)
\* for key in reader.textKeys(): every key but "metadata" is copied.
OtherKeys(d, chunks, x) ==
  IF x > Len(chunks) THEN d
  ELSE OtherKeys(IF chunks[x].k # "metadata"
                 THEN Put(d, chunks[x].k, RawText(chunks[x].v))
                 ELSE d,
                 chunks, x + 1)

_extract_image_metadata(f) ==
  LET texts == reader_texts(f.chunks, 1)
      json_metadata == Get(texts, "metadata", <<>>)
      parsed == loads(json_metadata)
      d0 == IF json_metadata # <<>> /\ parsed.ok
            THEN <<[k |-> "AI_METADATA_JSON", v |-> parsed.v]>>
            ELSE <<>>
      d1 == OtherKeys(d0, texts, 1)
  IN Put(Put(d1, "Dimensions", JStr(Word("WxH"))), "Format", JStr(Word("png")))

(***************************************************************************)
(* The display of the record, metadata_panel.py lines 340-397 and          *)
(* ui/generation.py lines 1817-1995: whether building the text raises.     *)
(***************************************************************************)
\* key in ai_metadata, for a value that has the operator: a dict has the key,
\* a list has the string as an item, a string has it as a substring.
Contains(ai, key) ==
  CASE ai.t = "obj" -> Has(ai.kids, key)
    [] ai.t = "list" -> \E x \in 1..Len(ai.kids) : ai.kids[x].v = JStr(Word(key))
    [] ai.t = "str" -> \E x \in 1..Len(ai.s) : ai.s[x].c = key
    [] OTHER -> FALSE

\* formatted_lines.append(ai_metadata[key]) of a value that is not a string:
\* "\n".join(formatted_lines) raises TypeError.
BadLine(ai, key, always) ==
  /\ Has(ai.kids, key)
  /\ Get(ai.kids, key, JNone).t # "str"
  /\ always \/ Truthy(Get(ai.kids, key, JNone))

\* f"{ai_metadata['strength'] * 100:.1f}" of a value that is not a number.
BadStrength(ai) ==
  /\ Has(ai.kids, "seed")
  /\ Has(ai.kids, "strength")
  /\ Get(ai.kids, "strength", JNone).t \notin {"int", "float", "bool"}

\* The lines of the record that both displays build: lines 352-381 of
\* metadata_panel.py, lines 1829-1858 of ui/generation.py.
RecordLinesRaise(ai, keys) ==
  CASE ai.t = "obj" ->
         \/ BadLine(ai, "prompt", TRUE)
         \/ \E key \in keys \ {"prompt", "seed"} : BadLine(ai, key, FALSE)
         \/ BadStrength(ai)
    [] ai.t \in {"list", "str"} -> \E key \in keys : Contains(ai, key)
    [] OTHER -> TRUE

\* _show_image_metadata from "if metadata:" on.
show_raises(metadata) ==
  /\ Has(metadata, "AI_METADATA_JSON")
  /\ RecordLinesRaise(Get(metadata, "AI_METADATA_JSON", JNone),
                      {"prompt", "negative_prompt", "seed", "style", "checkpoint"})

\* _load_external_image from "if metadata:" on: the same lines, the sampler,
\* and ai_metadata.items() and .get(), which only a dict has.
dialog_raises(metadata) ==
  /\ Has(metadata, "AI_METADATA_JSON")
  /\ LET ai == Get(metadata, "AI_METADATA_JSON", JNone)
     IN \/ RecordLinesRaise(ai, {"prompt", "negative_prompt", "seed", "style",
                                 "checkpoint", "sampler"})
        \/ ai.t # "obj"

\* What a reader leaves: the dict it extracted from the file and whether the
\* display of that dict raised.
Shown(via, f, metadata) ==
  [via |-> via, file |-> f, metadata |-> metadata,
   raised |-> IF via = "_extract_image_metadata" THEN show_raises(metadata)
              ELSE dialog_raises(metadata)]

\* MetadataPanel._show_image_metadata on an image file.
ShowImageMetadata ==
  /\ \E f \in disk :
       shown' = Shown("_extract_image_metadata", f, _extract_image_metadata(f))
  /\ UNCHANGED <<auto_save_generated, doc_filename, folder_ok, blocked, history, others, jobs,
               disk, calls>>

(***************************************************************************)
(* MetadataWidget._load_external_image, ui/generation.py lines 1559-1783:  *)
(* the scan of the file's bytes for tEXt chunks.                           *)
(***************************************************************************)
\* What the four bytes of a chunk's CRC-32 leave in text decoded with
\* errors='ignore': nothing but whitespace, or other characters.
Residues == {"blank", "other"}

\* The eight bytes between a chunk's data and the next chunk's type: the CRC-32
\* and the next chunk's length, whose first byte is NUL for every chunk under
\* 16 MiB.
Trailer(residue) ==
  (IF residue = "blank" THEN <<Byte("sp")>> ELSE <<[t |-> "junk", c |-> "crc", n |-> 1]>>)
  \o <<Byte("nul"), Byte("len")>>

\* The bytes of a chunk between the NUL that ends its keyword and its text:
\* none in a plain chunk; the compression method in a compressed one; the
\* compression flag and method (both 0) and the two empty, NUL-terminated
\* language fields in an international one.
ChunkHead(c) ==
  CASE ChunkType(c) = "zTXt" -> <<Byte(IF c.method = 0 THEN "nul" ELSE "method")>>
    [] ChunkType(c) = "iTXt" -> <<Byte("nul"), Byte("nul"), Byte("nul"), Byte("nul")>>
    [] OTHER -> <<>>

RECURSIVE ChunkBytes(_, _, _)
\* The text chunks of a PNG file: type, keyword, NUL, text, CRC and next length.
ChunkBytes(chunks, x, residue) ==
  IF x > Len(chunks) THEN <<>>
  ELSE <<Byte(ChunkType(chunks[x])), Byte(chunks[x].k), Byte("nul")>>
       \o ChunkHead(chunks[x]) \o chunks[x].v \o Trailer(residue)
       \o ChunkBytes(chunks, x + 1, residue)

\* The bytes of the file from its first text chunk on.
FileBytes(f, residue) ==
  ChunkBytes(f.chunks, 1, residue) \o <<Byte("IDAT"), Byte("pixels"), Byte("IEND")>>

IsType(a, c) == a.t = "ch" /\ a.c = c

IsStop(a) == IsType(a, "tEXt") \/ IsType(a, "IDAT") \/ IsType(a, "IEND")

\* The first index from p on that holds one of tEXt, IDAT, IEND; 0 when none.
NextStop(data, p) ==
  LET stops == {q \in p..Len(data) : IsStop(data[q])}
  IN IF stops = {} THEN 0 ELSE CHOOSE q \in stops : \A m \in stops : q <= m

RECURSIVE text_chunks(_, _)
\* re.findall(b'tEXt(.*?)(?=tEXt|IDAT|IEND)', data, re.DOTALL) from index p.
text_chunks(data, p) ==
  IF p > Len(data) THEN <<>>
  ELSE IF ~IsType(data[p], "tEXt") THEN text_chunks(data, p + 1)
  ELSE LET q == NextStop(data, p + 1)
       IN IF q = 0 THEN <<>>
          ELSE <<SubSeq(data, p + 1, q - 1)>> \o text_chunks(data, q)

\* chunk.find(b'\0'): the index of the first NUL, 0 when there is none.
NullPos(chunk) ==
  LET nuls == {x \in 1..Len(chunk) : IsType(chunk[x], "nul")}
  IN IF nuls = {} THEN 0 ELSE CHOOSE x \in nuls : \A m \in nuls : x <= m

\* chunk[:null_pos].decode(): the keyword as a string.
KeywordOf(chunk, null_pos) ==
  IF null_pos = 2 /\ chunk[1].t = "ch" /\ chunk[1].n = 1 THEN chunk[1].c ELSE "?"

\* A keyword test that also takes the keyword Software for the record's.
AiKeywords_and_Software == {"AI_METADATA_JSON", "AI", "AI_META", "Software"}

AiKeywords == {"AI_METADATA_JSON", "AI", "AI_META"}

\* The entry lines 1626-1650 store for a chunk with a keyword, parsed being
\* what json.loads made of its text.
TextEntry(d, keyword, text_data, parsed) ==
  IF keyword \in AiKeywords
  THEN (IF parsed.ok THEN Put(d, "AI_METADATA_JSON", parsed.v)
        ELSE Put(d, "PNG_tEXt_" \o keyword, JStr(Word("Error parsing JSON"))))
  ELSE IF keyword = "metadata"
  THEN (IF parsed.ok THEN Put(d, "AI_METADATA_JSON", parsed.v)
        ELSE Put(d, "PNG_tEXt_" \o keyword, RawText(text_data)))
  ELSE Put(d, "PNG_tEXt_" \o keyword, RawText(text_data))

\* One pass of the loop of lines 1616-1650 over a chunk.
ReadTextChunk(d, chunk) ==
  LET null_pos == NullPos(chunk)
      text_data == SubSeq(chunk, null_pos + 1, Len(chunk))
  IN IF null_pos = 0 THEN d
     ELSE TextEntry(d, KeywordOf(chunk, null_pos), text_data, loads(StripText(text_data)))

RECURSIVE ReadTextChunks(_, _, _)
ReadTextChunks(d, chunks, x) ==
  IF x > Len(chunks) THEN d
  ELSE ReadTextChunks(ReadTextChunk(d, chunks[x]), chunks, x + 1)

\* The first index from p on that holds the chunk type, IDAT or IEND; 0 when none.
NextStopOf(type, data, p) ==
  LET stops == {q \in p..Len(data) : IsType(data[q], type) \/ IsType(data[q], "IDAT")
                                      \/ IsType(data[q], "IEND")}
  IN IF stops = {} THEN 0 ELSE CHOOSE q \in stops : \A m \in stops : q <= m

RECURSIVE chunks_of(_, _, _)
\* re.findall(b'zTXt(.*?)(?=zTXt|IDAT|IEND)', data, re.DOTALL), and the same
\* for iTXt, from index p.
chunks_of(type, data, p) ==
  LET starts == {q \in p..Len(data) : IsType(data[q], type)}
      start == CHOOSE q \in starts : \A m \in starts : q <= m
      stop == NextStopOf(type, data, start + 1)
  IN IF starts = {} THEN <<>>
     ELSE IF stop = 0 THEN <<>>
     ELSE <<SubSeq(data, start + 1, stop - 1)>> \o chunks_of(type, data, stop)

Unsupported == JStr(Word("Compression non supportee"))

\* The text stored when a compressed chunk cannot be inflated or parsed.
ZtxtError(keyword) ==
  JStr(Word(IF keyword = "metadata" THEN "Erreur decompression/parsing"
            ELSE "Error parsing JSON"))

\* The entry lines 1672-1678 and 1694-1700 store for an inflated chunk, parsed
\* being what json.loads made of the inflated text.
InflatedEntry(d, keyword, inflated, parsed) ==
  IF inflated.ok /\ parsed.ok THEN Put(d, "AI_METADATA_JSON", parsed.v)
  ELSE Put(d, "PNG_zTXt_" \o keyword, ZtxtError(keyword))

\* zlib.decompress of the chunk's data after the compression-method byte.
Inflate(d, keyword, inflated) ==
  InflatedEntry(d, keyword, inflated, loads(StripText(inflated.text)))

\* A pass over a compressed chunk that inflates the data whatever the
\* compression-method byte says.
ReadZtxtChunk_any_method(d, chunk) ==
  LET null_pos == NullPos(chunk)
      keyword == KeywordOf(chunk, null_pos)
  IN IF null_pos = 0 THEN d
     ELSE IF keyword \in AiKeywords \cup {"metadata"}
     THEN Inflate(d, keyword, decompress(SubSeq(chunk, null_pos + 2, Len(chunk))))
     ELSE Put(d, "PNG_zTXt_" \o keyword, JStr(Word("Donnees compressees")))

\* One pass of the loop of lines 1655-1710 over a compressed chunk.
ReadZtxtChunk(d, chunk) ==
  LET null_pos == NullPos(chunk)
      keyword == KeywordOf(chunk, null_pos)
  IN IF null_pos = 0 THEN d
     ELSE IF keyword \in AiKeywords \cup {"metadata"}
     THEN (IF null_pos + 1 > Len(chunk)
           THEN Put(d, "PNG_zTXt_" \o keyword, ZtxtError(keyword))
           ELSE IF ~IsType(chunk[null_pos + 1], "nul")
           THEN Put(d, "PNG_zTXt_" \o keyword, Unsupported)
           ELSE Inflate(d, keyword, decompress(SubSeq(chunk, null_pos + 2, Len(chunk)))))
     ELSE Put(d, "PNG_zTXt_" \o keyword, JStr(Word("Donnees compressees")))

RECURSIVE ReadZtxtChunks(_, _, _)
ReadZtxtChunks(d, chunks, x) ==
  IF x > Len(chunks) THEN d
  ELSE ReadZtxtChunks(ReadZtxtChunk(d, chunks[x]), chunks, x + 1)

\* chunk.find(b'\0', null_pos + 1): the next NUL after the keyword's, 0 when none.
TextStart(chunk, null_pos) ==
  LET nuls == {x \in (null_pos + 1)..Len(chunk) : IsType(chunk[x], "nul")}
  IN IF nuls = {} THEN 0 ELSE CHOOSE x \in nuls : \A m \in nuls : x <= m

\* One pass of the loop of lines 1715-1726 over an international chunk.
ReadItxtChunk(d, chunk) ==
  LET null_pos == NullPos(chunk)
      text_start == TextStart(chunk, null_pos)
  IN IF null_pos = 0 \/ text_start = 0 THEN d
     ELSE Put(d, "PNG_iTXt_" \o KeywordOf(chunk, null_pos),
              RawText(SubSeq(chunk, text_start + 1, Len(chunk))))

RECURSIVE ReadItxtChunks(_, _, _)
ReadItxtChunks(d, chunks, x) ==
  IF x > Len(chunks) THEN d
  ELSE ReadItxtChunks(ReadItxtChunk(d, chunks[x]), chunks, x + 1)

\* The basic entries of lines 1580-1602.
BasicMetadata ==
  <<[k |-> "Nom du fichier", v |-> JStr(Word("name"))],
    [k |-> "Chemin", v |-> JStr(Word("dir"))],
    [k |-> "Taille du fichier", v |-> JStr(Word("KB"))],
    [k |-> "Dimensions", v |-> JStr(Word("W x H pixels"))],
    [k |-> "Format", v |-> JStr(Word("PNG"))],
    [k |-> "Profondeur de couleur", v |-> JStr(Word("bits"))],
    [k |-> "Format Qt", v |-> JStr(Word("format"))]>>

\* metadata of _load_external_image for the bytes of a PNG file.
load_external_metadata(data) ==
  LET plain == ReadTextChunks(BasicMetadata, text_chunks(data, 1), 1)
      compressed == ReadZtxtChunks(plain, chunks_of("zTXt", data, 1), 1)
  IN ReadItxtChunks(compressed, chunks_of("iTXt", data, 1), 1)

\* MetadataWidget._load_external_image on an image file.
LoadExternalImage ==
  /\ \E f \in disk, residue \in Residues :
       shown' = Shown("_load_external_image", f,
                      load_external_metadata(FileBytes(f, residue)))
  /\ UNCHANGED <<auto_save_generated, doc_filename, folder_ok, blocked, history, others, jobs,
               disk, calls>>

(***************************************************************************)
(* THE PANEL.  panel is [widget, model, bindings, selection, text,         *)
(* font_size, widget_height, text_height, saved_font, saved_height]:       *)
(* model the Model the widget watches, bindings the Models whose           *)
(* selection_changed is connected to _update_metadata, one entry for each  *)
(* connection of _model_bindings, selection the                            *)
(* jobs.selection of every Model (job ids, first selected first), text     *)
(* what _metadata_text shows, saved_* the two settings.                    *)
(***************************************************************************)
\* The Models of the open documents; the queue of Model 1 is jobs, the queue
\* of the other Model holds one job of its own.
Models == {1, 2}

QueueOf(m) == IF m = 1 THEN jobs ELSE <<OtherJob>>

\* "Select an image to see its metadata"
Placeholder == [kind |-> "placeholder", job |-> 0, lines |-> <<>>]

\* "Image not found"
NotFound == [kind |-> "not found", job |-> 0, lines |-> <<>>]

NoPanel ==
  [widget |-> "none", model |-> 1, bindings |-> <<>>, selection |-> [m \in Models |-> <<>>],
   text |-> Placeholder, font_size |-> 12, widget_height |-> 280, text_height |-> 270,
   saved_font |-> 12, saved_height |-> 280]

(***************************************************************************)
(* The Technical section, ui/generation.py lines 1314-1340 and 472-498.    *)
(* A line is [key, negative, text]; its text is the pieces of the          *)
(* f-string, a literal or str() of a value.                                *)
(***************************************************************************)
Lit(w) == [p |-> "lit", w |-> w, v |-> JNone]

StrOf(v) == [p |-> "str", w |-> "", v |-> v]

\* v.get("enabled", True) of an entry of the list.
Enabled(v) == Truthy(Get(v.kids, "enabled", JBool(TRUE)))

RECURSIVE formatted_values_all(_, _)
\* The pieces of every entry, whatever its flag.
formatted_values_all(kids, x) ==
  IF x > Len(kids) THEN <<>>
  ELSE <<<<StrOf(Get(kids[x].v.kids, "name", JStr(Word("Unknown")))), Lit(" ("),
           StrOf(Get(kids[x].v.kids, "strength", JFloat(100))), Lit(")")>>>>
       \o formatted_values_all(kids, x + 1)

RECURSIVE formatted_values(_, _)
\* formatted_values: f"{name} ({strength})" of every enabled entry, in order.
formatted_values(kids, x) ==
  IF x > Len(kids) THEN <<>>
  ELSE (IF Enabled(kids[x].v)
        THEN <<<<StrOf(Get(kids[x].v.kids, "name", JStr(Word("Unknown")))), Lit(" ("),
                 StrOf(Get(kids[x].v.kids, "strength", JFloat(100))), Lit(")")>>>>
        ELSE <<>>)
       \o formatted_values(kids, x + 1)

RECURSIVE Join(_, _)
\* ", ".join(formatted_values)
Join(values, x) ==
  IF x > Len(values) THEN <<>>
  ELSE values[x] \o (IF x < Len(values) THEN <<Lit(", ")>> ELSE <<>>) \o Join(values, x + 1)

\* v.get of an entry that is no dict raises AttributeError.
ValueRaises(value) ==
  /\ value.t = "list"
  /\ value.kids # <<>>
  /\ value.kids[1].v.t = "obj"
  /\ \E x \in 1..Len(value.kids) : value.kids[x].v.t # "obj"

\* The lines one item of job.params.metadata adds; none is the word shown
\* for a list without an enabled entry ("None", "Aucun").
TechnicalLine(key, value, style, none) ==
  IF key = "style" /\ style THEN <<>>
  ELSE IF value.t = "list" /\ value.kids = <<>> THEN <<>>
  ELSE IF value.t = "list" /\ value.kids[1].v.t = "obj"
  THEN <<[key |-> key, negative |-> FALSE,
          text |-> IF formatted_values(value.kids, 1) = <<>> THEN <<Lit(none)>>
                   ELSE Join(formatted_values(value.kids, 1), 1)]>>
  ELSE IF key = "negative_prompt" /\ Truthy(value)
  THEN <<[key |-> key, negative |-> TRUE, text |-> <<StrOf(value)>>]>>
  ELSE <<[key |-> key, negative |-> FALSE, text |-> <<StrOf(value)>>]>>

RECURSIVE TechnicalLines(_, _, _, _)
\* for key, value in job.params.metadata.items()
TechnicalLines(md, x, style, none) ==
  IF x > Len(md) THEN <<>>
  ELSE TechnicalLine(md[x].k, md[x].v, style, none) \o TechnicalLines(md, x + 1, style, none)

\* Whether building the text of the job raises.
FormatRaises(job, style) ==
  \E x \in 1..Len(job.metadata) :
    /\ ~(job.metadata[x].k = "style" /\ style)
    /\ ValueRaises(job.metadata[x].v)

\* MetadataWidget._format_metadata_for_display(job); style is whether
\* Styles.list().find(job.params.style) finds the style.
_format_metadata_for_display(job, style) ==
  [kind |-> "metadata", job |-> job.id, lines |-> TechnicalLines(job.metadata, 1, style, "None")]

\* HistoryWidget._format_detailed_metadata(job).
_format_detailed_metadata(job, style) == TechnicalLines(job.metadata, 1, style, "Aucun")

\* HistoryWidget._show_metadata: the message box with the text of the job.
ShowMetadata ==
  /\ \E j \in 1..Len(jobs), style \in BOOLEAN :
       shown' = IF FormatRaises(jobs[j], style)
                THEN [via |-> "_format_detailed_metadata", file |-> NoFile,
                      metadata |-> <<>>, raised |-> TRUE]
                ELSE [via |-> "_format_detailed_metadata", file |-> NoFile,
                      metadata |-> _format_detailed_metadata(jobs[j], style),
                      raised |-> FALSE]
  /\ UNCHANGED <<auto_save_generated, doc_filename, folder_ok, blocked, history, others, jobs,
                 disk, calls>>

(***************************************************************************)
(* MetadataWidget, ui/generation.py lines 1254-1286, and MetadataPanel,    *)
(* metadata_panel.py lines 165-202: the model setter and _update_metadata. *)
(***************************************************************************)
\* self._model.jobs.find(job_id): the job of the queue with that id, if any.
Found(m, job_id) == {x \in 1..Len(QueueOf(m)) : QueueOf(m)[x].id = job_id}

\* MetadataFormatter.format_for_display(job) (utils.py): the presenter of the
\* specification, section 4.4.
format_for_display(job, style) ==
  [kind |-> "metadata", job |-> job.id, lines |-> TechnicalLines(job.metadata, 1, style, "None")]

\* The text _update_metadata sets for the selection of the widget's model; the
\* text stays when building it raises.
UpdatedText(p, selection, style) ==
  IF selection = <<>> THEN Placeholder
  ELSE IF Found(p.model, selection[1]) = {} THEN NotFound
  ELSE LET job == QueueOf(p.model)[CHOOSE x \in Found(p.model, selection[1]) : TRUE]
       IN IF FormatRaises(job, style) THEN p.text
          ELSE IF p.widget = "MetadataPanel" THEN format_for_display(job, style)
          ELSE _format_metadata_for_display(job, style)

\* _update_metadata on the panel p.
_update_metadata(p, style) ==
  [p EXCEPT !.text = UpdatedText(p, p.selection[p.model], style)]

\* ModelSync.__init__, persistence.py lines 120-122, for a document without
\* saved state.  sync is [queue, history, memory, annotations, slot_index,
\* limit, ids]: model.jobs as entries [id, kind, n, weight], _history as
\* entries [id, slot], _memory_used and the document's "result<slot>.webp"
\* annotations as functions from slots to sizes, _slot_index,
\* settings.history_storage in bytes, and the number of job ids given out.
NoSync ==
  [queue |-> <<>>, history |-> <<>>, memory |-> <<>>, annotations |-> <<>>, slot_index |-> 0,
   limit |-> 0, ids |-> 0]

\* The project before install.py ran.  installed is [files, backup, first,
\* report]: the contents of ui/generation.py, persistence.py and
\* ui/settings.py, each a sequence of pieces of text; the contents in
\* backup_before_custom_features, <<>> when the folder does not exist; the
\* contents before the first install; and [op, ok, n], the last command, what
\* it returned and how many commands ran.
NoInstall ==
  [files |-> <<>>, backup |-> <<>>, first |-> <<>>, report |-> [op |-> "none", ok |-> TRUE, n |-> 0]]

\* The panel, the history store and the installer are not part of the run.
Idle == panel = NoPanel /\ sync = NoSync /\ installed = NoInstall

(***************************************************************************)
(* THE SPECIFICATION.                                                      *)
(***************************************************************************)
Init ==
  /\ auto_save_generated \in BOOLEAN
  /\ doc_filename \in DocFiles
  /\ folder_ok \in BOOLEAN
  /\ blocked = {}
  /\ history = {}
  /\ Idle
  /\ jobs = <<>>
  /\ disk = {}
  /\ calls = <<>>
  /\ shown = NothingShown

\* The save operations: the job-finished handler, the auto-save hook, the two
\* "save all" operations and the document export.
Next ==
  \/ JobFinished
  \/ \E j \in 1..Len(jobs) : SaveJobImages(j)
  \/ SaveAllHistoryImages
  \/ SaveFromHistory
  \/ SaveDocumentWithMetadata
  \/ SetAutoSave

Spec == Init /\ [][Next]_vars

\* A job finishes and is saved, the hook saves it again, the document is
\* exported, and the two readers open the files written.
NextRead ==
  \/ JobFinished
  \/ \E j \in 1..Len(jobs) : SaveJobImages(j)
  \/ SaveDocumentWithMetadata
  \/ ShowImageMetadata
  \/ LoadExternalImage

SpecRead == Init /\ [][NextRead]_vars

\* A PNG file from elsewhere lies in a folder and the two readers open it.
InitDecode ==
  /\ auto_save_generated = FALSE
  /\ doc_filename = DocUnsaved
  /\ folder_ok = TRUE
  /\ blocked = {}
  /\ history = {}
  /\ Idle
  /\ jobs = <<>>
  /\ disk \in {{f} : f \in ExternalImages}
  /\ calls = <<>>
  /\ shown = NothingShown

NextDecode ==
  \/ ShowImageMetadata
  \/ LoadExternalImage

SpecDecode == InitDecode /\ [][NextDecode]_vars

\* The parameters of the jobs of a history: a plain job, a refine job, an
\* upscale and a control-layer job.
HistoryTemplates == {tpl \in Templates : tpl.seed \in {7, 12, 3, 4}}

\* The category folders that cannot be made: none, the one of upscales, the
\* one of generated images (under either of its two names).
BlockedFolders == {{}, {"Upscale"}, {"Generate", "ImgGenerate"}}

\* A document whose history holds HistoryLen finished jobs, saved by none of
\* the save operations yet; the two bulk operations run on it.
InitHistory ==
  /\ auto_save_generated \in BOOLEAN
  /\ doc_filename \in DocFiles
  /\ folder_ok \in BOOLEAN
  /\ blocked \in BlockedFolders
  /\ jobs \in {[j \in 1..HistoryLen |-> JobOf(j, tpls[j], IF j = 1 THEN 1 ELSE n)] :
                tpls \in [1..HistoryLen -> HistoryTemplates], n \in 0..1}
  /\ history = {j \in 1..HistoryLen : Recorded(jobs[j], FALSE)}
  /\ Idle
  /\ disk = {}
  /\ calls = <<>>
  /\ shown = NothingShown

\* jobs.selection of a Model: job ids, job 3 being in no queue.
Selections == {<<>>, <<1>>, <<2>>, <<3>>, <<1, 2>>, <<2, 1>>, <<3, 1>>}

\* selection_changed of the Model m: every connected handler runs.
SelectionChanged ==
  /\ \E m \in Models, sel \in Selections, style \in BOOLEAN :
       LET p == [panel EXCEPT !.selection[m] = sel]
       IN panel' = IF \E b \in 1..Len(p.bindings) : p.bindings[b] = m
                   THEN _update_metadata(p, style)
                   ELSE p
  /\ UNCHANGED <<auto_save_generated, doc_filename, folder_ok, blocked, history, sync, installed,
                 jobs, disk, calls, shown>>

\* Every binding stays connected.
Rebound_keeping(p, m, style) ==
  _update_metadata([p EXCEPT !.model = m, !.bindings = p.bindings \o <<m>>], style)

\* Binding.disconnect_all, the new binding and the update of the model setter.
Rebound(p, m, style) ==
  _update_metadata([p EXCEPT !.model = m, !.bindings = <<m>>], style)

\* widget.model = m
SetModel ==
  /\ \E m \in Models, style \in BOOLEAN :
       panel' = IF panel.model # m THEN Rebound(panel, m, style) ELSE panel
  /\ UNCHANGED <<auto_save_generated, doc_filename, folder_ok, blocked, history, sync, installed,
                 jobs, disk, calls, shown>>

\* The panel after __init__: MetadataPanel connects to root.active_model,
\* MetadataWidget holds it unconnected.
NewPanel(widget, m) ==
  [NoPanel EXCEPT !.widget = widget, !.model = m,
                  !.bindings = IF widget = "MetadataPanel" THEN <<m>> ELSE <<>>]

\* A finished job is in the queue of Model 1 and the panel is new.
InitPanel ==
  /\ auto_save_generated = FALSE
  /\ doc_filename \in DocFiles
  /\ folder_ok = TRUE
  /\ blocked = {}
  /\ history = {}
  /\ \E widget \in {"MetadataWidget", "MetadataPanel"}, m \in Models :
       panel = NewPanel(widget, m)
  /\ sync = NoSync
  /\ installed = NoInstall
  /\ \E tpl \in PresentTemplates : jobs = <<JobOf(1, tpl, 1)>>
  /\ disk = {}
  /\ calls = <<>>
  /\ shown = NothingShown

NextPanel == SelectionChanged \/ SetModel \/ ShowMetadata

SpecPanel == InitPanel /\ [][NextPanel]_vars

(***************************************************************************)
(* The size buttons of MetadataPanel, metadata_panel.py lines 208-246.     *)
(***************************************************************************)
MinFontSize == 8

MaxFontSize == 20

MinHeight == 120

MaxHeight == 400

HeightStep == 20

\* The values the settings page lets the user store: a font size of 8 to 20,
\* a height of 100 to 500 (metadata_downloads_widget.py lines 85-106).
SettingFonts == {8, 10, 12, 19, 20}

SettingHeights == {100, 120, 125, 220, 280, 395, 400, 500}

\* MetadataPanel.__init__, lines 54-71: the sizes are read from the settings
\* and the two default values are raised.
Sized(p, font, height) ==
  [p EXCEPT !.font_size = IF font = 10 THEN 12 ELSE font,
            !.saved_font = IF font = 10 THEN 12 ELSE font,
            !.widget_height = IF height = 220 THEN 280 ELSE height,
            !.text_height = IF height = 220 THEN 270 ELSE height - 10,
            !.saved_height = IF height = 220 THEN 280 ELSE height]

_decrease_font_size ==
  /\ panel' = IF panel.font_size > MinFontSize
              THEN [panel EXCEPT !.font_size = @ - 1, !.saved_font = panel.font_size - 1]
              ELSE panel
  /\ UNCHANGED <<auto_save_generated, doc_filename, folder_ok, blocked, history, sync, installed,
                 jobs, disk, calls, shown>>

_increase_font_size ==
  /\ panel' = IF panel.font_size < MaxFontSize
              THEN [panel EXCEPT !.font_size = @ + 1, !.saved_font = panel.font_size + 1]
              ELSE panel
  /\ UNCHANGED <<auto_save_generated, doc_filename, folder_ok, blocked, history, sync, installed,
                 jobs, disk, calls, shown>>

_decrease_height ==
  /\ panel' = IF panel.widget_height > MinHeight
              THEN [panel EXCEPT !.widget_height = @ - HeightStep,
                                 !.text_height = @ - HeightStep,
                                 !.saved_height = panel.widget_height - HeightStep]
              ELSE panel
  /\ UNCHANGED <<auto_save_generated, doc_filename, folder_ok, blocked, history, sync, installed,
                 jobs, disk, calls, shown>>

_increase_height ==
  /\ panel' = IF panel.widget_height < MaxHeight
              THEN [panel EXCEPT !.widget_height = @ + HeightStep,
                                 !.text_height = @ + HeightStep,
                                 !.saved_height = panel.widget_height + HeightStep]
              ELSE panel
  /\ UNCHANGED <<auto_save_generated, doc_filename, folder_ok, blocked, history, sync, installed,
                 jobs, disk, calls, shown>>

\* A new MetadataPanel with the sizes of the settings.
InitSizes ==
  /\ auto_save_generated = FALSE
  /\ doc_filename \in DocFiles
  /\ folder_ok = TRUE
  /\ blocked = {}
  /\ history = {}
  /\ \E font \in SettingFonts, height \in SettingHeights :
       panel = Sized(NewPanel("MetadataPanel", 1), font, height)
  /\ sync = NoSync
  /\ installed = NoInstall
  /\ jobs = <<>>
  /\ disk = {}
  /\ calls = <<>>
  /\ shown = NothingShown

NextSizes == _decrease_font_size \/ _increase_font_size \/ _decrease_height \/ _increase_height

SpecSizes == InitSizes /\ [][NextSizes]_vars

(***************************************************************************)
(* The history store of ModelSync, persistence.py lines 171-262: what      *)
(* _save_results, _remove_results, _remove_image and _prune keep of the    *)
(* results, apart from the saving of the images.                           *)
(***************************************************************************)
MaxSyncJobs == 3

\* settings.history_storage * 1024 * 1024, in the unit of the sizes.
Limits == {2, 3}

\* d.pop(key, None) of a dict.
Pop(d, key) == [k \in DOMAIN d \ {key} |-> d[k]]

\* d[key] = value of a dict.
SetKey(d, key, value) == [k \in DOMAIN d \cup {key} |-> IF k = key THEN value ELSE d[k]]

RECURSIVE SumOver(_, _)
SumOver(d, keys) ==
  IF keys = {} THEN 0
  ELSE LET k == CHOOSE k \in keys : TRUE IN d[k] + SumOver(d, keys \ {k})

\* ModelSync.memory_used
memory_used(s) == SumOver(s.memory, DOMAIN s.memory)

\* job.results.to_bytes(): the size of the image data of a job.
SizeOf(job) == job.n * job.weight

\* The entries of a sequence other than the x-th.
Without(q, x) == SubSeq(q, 1, x - 1) \o SubSeq(q, x + 1, Len(q))

RECURSIVE PruneNewest(_, _)
\* The loop popping the newest entry.
PruneNewest(s, used) ==
  IF used > s.limit /\ Len(s.history) > 0
  THEN LET slot == s.history[Len(s.history)].slot
       IN PruneNewest([s EXCEPT !.history = SubSeq(s.history, 1, Len(s.history) - 1),
                                !.annotations = Pop(s.annotations, slot),
                                !.memory = Pop(s.memory, slot)],
                      used - (IF slot \in DOMAIN s.memory THEN s.memory[slot] ELSE 0))
  ELSE s

RECURSIVE PruneLoop(_, _)
\* The loop of lines 259-262.
PruneLoop(s, used) ==
  IF used > s.limit /\ Len(s.history) > 0
  THEN LET slot == Head(s.history).slot
       IN PruneLoop([s EXCEPT !.history = Tail(s.history),
                              !.annotations = Pop(s.annotations, slot),
                              !.memory = Pop(s.memory, slot)],
                    used - (IF slot \in DOMAIN s.memory THEN s.memory[slot] ELSE 0))
  ELSE s

_prune(s) == PruneLoop(s, memory_used(s))

\* The entry stays in _memory_used.
Removed_keeping_memory(s, index) ==
  [s EXCEPT !.history = Without(s.history, index),
            !.annotations = Pop(s.annotations, s.history[index].slot)]

\* item = self._history.pop(index) and lines 240-241.
Removed(s, index) ==
  [s EXCEPT !.history = Without(s.history, index),
            !.annotations = Pop(s.annotations, s.history[index].slot),
            !.memory = Pop(s.memory, s.history[index].slot)]

\* The indexes of the history entries of the job.
EntriesOf(s, id) == {x \in 1..Len(s.history) : s.history[x].id = id}

First(S) == CHOOSE x \in S : \A y \in S : x <= y

\* ModelSync._save_results, lines 219-231, for a job that has finished.
_save_results(s, job) ==
  IF job.kind \in SaveKinds /\ job.n > 0
  THEN _prune([s EXCEPT !.slot_index = @ + 1,
                        !.annotations = SetKey(@, s.slot_index, SizeOf(job)),
                        !.history = Append(@, [id |-> job.id, slot |-> s.slot_index]),
                        !.memory = SetKey(@, s.slot_index, SizeOf(job))])
  ELSE s

\* ModelSync._remove_results, lines 236-242, for a job that was discarded.
_remove_results(s, id) ==
  IF EntriesOf(s, id) # {} THEN Removed(s, First(EntriesOf(s, id))) ELSE s

\* ModelSync._remove_image, lines 244-250: the job of the item, looked up in
\* the queue, is stored again under the slot of its entry.
_remove_image(s, id) ==
  IF EntriesOf(s, id) # {} /\ \E x \in 1..Len(s.queue) : s.queue[x].id = id
  THEN LET slot == s.history[First(EntriesOf(s, id))].slot
           job == s.queue[CHOOSE x \in 1..Len(s.queue) : s.queue[x].id = id]
       IN [s EXCEPT !.annotations = SetKey(@, slot, SizeOf(job)),
                    !.memory = SetKey(@, slot, SizeOf(job))]
  ELSE s

\* jobs.job_finished: a job with n results joins the queue as finished.
SyncJobFinished ==
  /\ sync.ids < MaxSyncJobs
  /\ \E kind \in {"diffusion", "control"}, n \in 0..2, weight \in 1..2 :
       LET job == [id |-> sync.ids + 1, kind |-> kind, n |-> n, weight |-> weight]
       IN sync' = _save_results([sync EXCEPT !.ids = @ + 1, !.queue = Append(@, job)], job)
  /\ UNCHANGED <<auto_save_generated, doc_filename, folder_ok, blocked, history, panel,
                 installed, jobs, disk, calls, shown>>

\* jobs.job_discarded: the job leaves the queue.
SyncJobDiscarded ==
  /\ \E x \in 1..Len(sync.queue) :
       sync' = _remove_results([sync EXCEPT !.queue = Without(@, x)], sync.queue[x].id)
  /\ UNCHANGED <<auto_save_generated, doc_filename, folder_ok, blocked, history, panel,
                 installed, jobs, disk, calls, shown>>

\* jobs.result_discarded: one result of the job is gone.
SyncResultDiscarded ==
  /\ \E x \in 1..Len(sync.queue) :
       /\ sync.queue[x].n > 1
       /\ sync' = _remove_image([sync EXCEPT !.queue[x].n = @ - 1], sync.queue[x].id)
  /\ UNCHANGED <<auto_save_generated, doc_filename, folder_ok, blocked, history, panel,
                 installed, jobs, disk, calls, shown>>

\* The user sets the history storage limit.
SetHistoryStorage ==
  /\ \E limit \in Limits : limit # sync.limit /\ sync' = [sync EXCEPT !.limit = limit]
  /\ UNCHANGED <<auto_save_generated, doc_filename, folder_ok, blocked, history, panel,
                 installed, jobs, disk, calls, shown>>

\* The states saved in a document: the history entries [id, slot, n, weight]
\* of an earlier session, and whether the annotation of each is still there.
SavedStates ==
  {<<>>,
   <<[id |-> 11, slot |-> 1, n |-> 1, weight |-> 1, found |-> TRUE],
     [id |-> 12, slot |-> 2, n |-> 2, weight |-> 1, found |-> FALSE],
     [id |-> 13, slot |-> 4, n |-> 1, weight |-> 2, found |-> TRUE]>>}

RECURSIVE _load(_, _, _)
\* ModelSync._load, lines 171-181: the entries whose annotation is found.
_load(s, saved, x) ==
  IF x > Len(saved) THEN s
  ELSE IF saved[x].found
  THEN LET job == [id |-> saved[x].id, kind |-> "diffusion", n |-> saved[x].n,
                   weight |-> saved[x].weight]
       IN _load([s EXCEPT !.queue = Append(@, job),
                          !.history = Append(@, [id |-> job.id, slot |-> saved[x].slot]),
                          !.annotations = SetKey(@, saved[x].slot, SizeOf(job)),
                          !.memory = SetKey(@, saved[x].slot, SizeOf(job)),
                          !.slot_index = IF @ > saved[x].slot + 1 THEN @
                                         ELSE saved[x].slot + 1],
                saved, x + 1)
  ELSE _load(s, saved, x + 1)

\* A ModelSync is made for a document.
InitSync ==
  /\ auto_save_generated = FALSE
  /\ doc_filename \in DocFiles
  /\ folder_ok = TRUE
  /\ blocked = {}
  /\ history = {}
  /\ panel = NoPanel
  /\ \E limit \in Limits, saved \in SavedStates :
       sync = _load([NoSync EXCEPT !.limit = limit], saved, 1)
  /\ installed = NoInstall
  /\ jobs = <<>>
  /\ disk = {}
  /\ calls = <<>>
  /\ shown = NothingShown

NextSync == SyncJobFinished \/ SyncJobDiscarded \/ SyncResultDiscarded \/ SetHistoryStorage

SpecSync == InitSync /\ [][NextSync]_vars

(***************************************************************************)
(* install.py.  A file is a sequence of pieces of text: "W" the paragraph  *)
(* that starts with "class MetadataWidget(QWidget):", "T" the line         *)
(* "from ..ui.theme import theme", "M" and "P" the line that makes the     *)
(* MetadataWidget or the MetadataPanel, "U" "self.update_generate_button()",*)
(* "V" the visibility code, "K" the method _update_metadata_visibility,    *)
(* "G" "class GenerationWidget", "S" "from .settings import settings",     *)
(* "D" "def _save_results(self, job: Job):", "A"                           *)
(* "from .settings_widgets import", "N" "def __init__(self, server:        *)
(* Server):", "{" and "}" the braces, "IG", "IP", "IS" the three import    *)
(* lines, "AC" the auto-save call, "TC" the tabs code, "X" anything else.  *)
(***************************************************************************)
MaxCommands == 4

\* Whether one of the pieces is in the content.
InContent(c, toks) == \E x \in 1..Len(c) : c[x] \in toks

\* content.find(tok), 0 for -1.
FindFirst(c, tok) ==
  IF InContent(c, {tok}) THEN CHOOSE x \in 1..Len(c) : c[x] = tok /\ \A y \in 1..(x - 1) : c[y] # tok
  ELSE 0

\* content.rfind(tok), 0 for -1.
FindLast(c, tok) ==
  IF InContent(c, {tok}) THEN CHOOSE x \in 1..Len(c) : c[x] = tok /\ \A y \in (x + 1)..Len(c) : c[y] # tok
  ELSE 0

RECURSIVE ReplaceEach(_, _, _)
\* content.replace(tok, new)
ReplaceEach(c, tok, new) ==
  IF c = <<>> THEN <<>>
  ELSE (IF Head(c) = tok THEN new ELSE <<Head(c)>>) \o ReplaceEach(Tail(c), tok, new)

\* content[:pos] + code + content[pos:]
InsertBefore(c, pos, code) == SubSeq(c, 1, pos - 1) \o <<code>> \o SubSeq(c, pos, Len(c))

RECURSIVE ClosingBrace(_, _, _)
\* The position from pos on of the "}" that brings brace_count to 0, or 0.
ClosingBrace(c, pos, brace_count) ==
  IF pos > Len(c) THEN 0
  ELSE IF c[pos] = "{" THEN ClosingBrace(c, pos + 1, brace_count + 1)
  ELSE IF c[pos] = "}"
  THEN (IF brace_count - 1 = 0 THEN pos ELSE ClosingBrace(c, pos + 1, brace_count - 1))
  ELSE ClosingBrace(c, pos + 1, brace_count)

\* The code is put before the closing brace found from the piece at start on.
InsertAtBrace(c, start, code) ==
  IF start = 0 \/ ClosingBrace(c, start, 0) = 0 THEN c
  ELSE InsertBefore(c, ClosingBrace(c, start, 0), code)

\* _modify_generation_py, lines 138-212.
_modify_generation_py(content) ==
  IF InContent(content, {"W"})
  THEN LET c1 == SubSeq(content, 1, FindFirst(content, "W") - 1)
                 \o SubSeq(content, FindFirst(content, "W") + 1, Len(content))
           c2 == ReplaceEach(c1, "T", <<"T", "IG">>)
           c3 == ReplaceEach(c2, "M", <<"P">>)
           c4 == IF ~InContent(c3, {"V"}) /\ FindFirst(c3, "U") # 0
                 THEN InsertBefore(c3, FindFirst(c3, "U"), "V") ELSE c3
       IN IF ~InContent(c4, {"V", "K"}) THEN InsertAtBrace(c4, FindLast(c4, "G"), "K") ELSE c4
  ELSE content

\* _modify_persistence_py, lines 214-256.
_modify_persistence_py(content) ==
  LET c1 == ReplaceEach(content, "S", <<"S", "IP">>)
  IN IF ~InContent(c1, {"IP", "AC"}) THEN InsertAtBrace(c1, FindFirst(c1, "D"), "AC") ELSE c1

\* _modify_settings_py, lines 258-303.
_modify_settings_py(content) ==
  LET c1 == ReplaceEach(content, "A", <<"A", "IS">>)
  IN IF ~InContent(c1, {"IS", "TC"}) THEN InsertAtBrace(c1, FindFirst(c1, "N"), "TC") ELSE c1

\* _apply_modifications, lines 121-136.
_apply_modifications(files) ==
  [generation |-> _modify_generation_py(files.generation),
   persistence |-> _modify_persistence_py(files.persistence),
   settings |-> _modify_settings_py(files.settings)]

\* _create_backup, lines 92-119: the folder, removed when it exists, gets the
\* three files as they are now.
_create_backup(i) == i.files

\* install(), lines 22-48; structure is what _check_structure finds, verified
\* whether the imports of _verify_installation work.
Install ==
  /\ installed.report.n < MaxCommands
  /\ \E structure, verified \in BOOLEAN :
       installed' =
         IF ~structure
         THEN [installed EXCEPT !.report = [op |-> "install", ok |-> FALSE, n |-> @.n + 1]]
         ELSE [installed EXCEPT !.backup = _create_backup(installed),
                                !.files = _apply_modifications(@),
                                !.report = [op |-> "install", ok |-> verified, n |-> @.n + 1]]
  /\ UNCHANGED <<auto_save_generated, doc_filename, folder_ok, blocked, history, panel, sync,
                 jobs, disk, calls, shown>>

\* uninstall() and _restore_backup, lines 50-67 and 333-356.
Uninstall ==
  /\ installed.report.n < MaxCommands
  /\ installed' =
       IF installed.backup # <<>>
       THEN [installed EXCEPT !.files = installed.backup, !.backup = <<>>,
                              !.report = [op |-> "uninstall", ok |-> TRUE, n |-> @.n + 1]]
       ELSE [installed EXCEPT !.report = [op |-> "uninstall", ok |-> FALSE, n |-> @.n + 1]]
  /\ UNCHANGED <<auto_save_generated, doc_filename, folder_ok, blocked, history, panel, sync,
                 jobs, disk, calls, shown>>

\* The three files of a project: those of this repository, and files without
\* the lines the installer looks for.
ProjectFiles ==
  [generation : {<<"X", "G", "M", "V", "U", "K", "W", "X">>, <<"T", "G", "{", "M", "U", "W", "}">>,
                 <<"T", "G", "{", "M", "W", "}">>},
   persistence : {<<"S", "X", "D", "X">>, <<"X", "D", "{", "X", "}">>},
   settings : {<<"A", "X", "N">>, <<"N", "{", "{", "}", "}">>, <<"X">>}]

\* install.py has not run on the project.
InitInstall ==
  /\ auto_save_generated = FALSE
  /\ doc_filename \in DocFiles
  /\ folder_ok = TRUE
  /\ blocked = {}
  /\ history = {}
  /\ panel = NoPanel
  /\ sync = NoSync
  /\ \E files \in ProjectFiles : installed = [NoInstall EXCEPT !.files = files, !.first = files]
  /\ jobs = <<>>
  /\ disk = {}
  /\ calls = <<>>
  /\ shown = NothingShown

NextInstall == Install \/ Uninstall

SpecInstall == InitInstall /\ [][NextInstall]_vars

\* Jobs with lora lists and metadata keys of every sort finish with auto-save
\* enabled, and the history is saved again.
InitRecord ==
  /\ auto_save_generated = TRUE
  /\ doc_filename \in DocFiles
  /\ folder_ok = TRUE
  /\ blocked = {}
  /\ history = {}
  /\ Idle
  /\ jobs = <<>>
  /\ disk = {}
  /\ calls = <<>>
  /\ shown = NothingShown

RecordJobFinished == JobFinishedOf(RecordTemplates)

NextRecord ==
  \/ RecordJobFinished
  \/ SaveFromHistory

SpecRecord == InitRecord /\ [][NextRecord]_vars

NextHistory ==
  \/ SaveAllHistoryImages
  \/ SaveFromHistory

SpecHistory == InitHistory /\ [][NextHistory]_vars

(***************************************************************************)
(* THE PROPERTIES.                                                         *)
(***************************************************************************)
\* The save loops that embed a job's record.
JobSavers == {"save_job_images", "_auto_save_images", "_auto_save_images_from_history"}

\* The record the save loop built for a file it wrote (all_metadata of the loop).
RecordOf(f) ==
  IF f.by = "save_job_images"
  THEN prepare_for_save(jobs[f.job], f.i, get_image_type(jobs[f.job]))
  ELSE all_metadata(jobs[f.job], f.i, image_type_of(jobs[f.job]))

\* The files written by the job save loops.
JobFiles == {f \in disk : f.by \in JobSavers}

\* C1: round trip.  Whenever a reader has decoded a file that a job save wrote
\* from a record whose serialized form is within the 4000 budget, the record the
\* reader hands on (its AI_METADATA_JSON entry) equals the record that was
\* embedded, in every field.
C1_RoundTrip ==
  (/\ shown.via # "none"
   /\ shown.file.by \in JobSavers
   /\ ~OverLimit(dumps(RecordOf(shown.file))))
  => Get(shown.metadata, "AI_METADATA_JSON", JNone) = JObj(RecordOf(shown.file))

\* The JSON payload a file carries under the keyword "metadata".
Payload(f) == Get(f.chunks, "metadata", <<>>)

\* The record a reader of the payload gets: json.loads of it.
Embedded(f) == loads(Payload(f))

\* C2: every metadata payload that a save embeds in an image is at most 4000
\* bytes when UTF-8 encoded, the payload written after the truncation step
\* included.
C2_PayloadWithinBudget ==
  \A f \in disk : TextBytes(Payload(f)) <= MaxJsonLen

EssentialKeys == {"prompt", "seed", "strength", "generation_type", "timestamp", "truncated"}

C4_Classification ==
  \A f \in JobFiles :
    LET category == get_image_type(jobs[f.job])
    IN /\ f.path.dir[Len(f.path.dir)] = category
       /\ \E x \in 1..Len(f.path.file) : f.path.file[x] = Run(category, 1)
       /\ Embedded(f).ok
       /\ Get(Embedded(f).v.kids, "generation_type", JNone) = JStr(Word(category))

\* The attempts of a logged call at which img.save raised, and those it wrote.
RaisedAt(c) == {x \in 1..Len(c.att) : c.att[x].out = "raise"}

WrittenAt(c) == {x \in 1..Len(c.att) : c.att[x].out = "ok"}

\* C5: partial-failure tolerance.  In every step that is a call of
\* save_job_images in which writing some image raises: the call returns
\* normally, every image of the batch whose write succeeds is on disk after the
\* call with the payload built for it, and every file that was on disk before
\* and is not written anew by the call is still there.
C5_PartialFailure ==
  [][(/\ Len(calls') = Len(calls) + 1
      /\ calls'[Len(calls')].op = "save_job_images"
      /\ RaisedAt(calls'[Len(calls')]) # {})
     => LET c == calls'[Len(calls')]
        IN /\ ~c.raised
           /\ \A x \in WrittenAt(c) :
                \E f \in disk' :
                  /\ f.path = c.att[x].path
                  /\ f.call = Len(calls')
                  /\ f.job = c.job
                  /\ f.i = c.att[x].i
                  /\ f.chunks = metadata_dict(metadata_json(RecordOf(f)))
           /\ \A f \in disk :
                (\A x \in WrittenAt(c) : c.att[x].path # f.path) => f \in disk'
    ]_vars

\* C5 witness: a call of save_job_images on two images has returned; the write
\* of the first raised, the second is on disk.
C5_RaiseThenWritten ==
  \E k \in 1..Len(calls) :
    /\ calls[k].op = "save_job_images"
    /\ ~calls[k].raised
    /\ Len(calls[k].att) = 2
    /\ calls[k].att[1].out = "raise"
    /\ calls[k].att[2].out = "ok"
    /\ \E f \in disk : f.call = k /\ f.i = 1 /\ f.path = calls[k].att[2].path

\* C6: the value save_job_images returns is the number of images of the job
\* that this call wrote to disk: right after such a call has returned, its
\* count equals the number of files on disk that the call wrote.
C6_CountIsWritten ==
  (/\ calls # <<>>
   /\ calls[Len(calls)].op = "save_job_images"
   /\ ~calls[Len(calls)].raised)
  => calls[Len(calls)].ret = Cardinality({f \in disk : f.call = Len(calls)})

\* The save operations that run the loop over the images of one job at a time.
PerJobOps == {"save_job_images", "_auto_save_images"}

\* C7: file name uniqueness within a batch.  The destination paths that one
\* call produces for the images of one job are pairwise distinct, whatever the
\* clock returned for them.
C7_DistinctInBatch ==
  \A k \in 1..Len(calls) :
    \A x, y \in 1..Len(calls[k].att) :
      (x # y /\ calls[k].att[x].job = calls[k].att[y].job)
        => calls[k].att[x].path # calls[k].att[y].path

\* C7 witness: one call of a per-job save handled two images of a job at the
\* same clock reading.
C7_SameMillisecond ==
  \E k \in 1..Len(calls) :
    /\ calls[k].op \in PerJobOps
    /\ Len(calls[k].att) = 2
    /\ calls[k].att[1].t = calls[k].att[2].t
    /\ calls[k].att[1].out = "ok"
    /\ calls[k].att[2].out = "ok"
    /\ Cardinality({f \in disk : f.call = k}) = 2

\* The operations of AutoSaveManager.
ManagerOps == {"save_job_images", "save_all_history_images"}

\* C8: history preservation.  Two invocations of the save operation never
\* write the same path for the same job, so no invocation overwrites a file of
\* an earlier one.
C8_DisjointPaths ==
  \A a, b \in 1..Len(calls) :
    (a < b /\ calls[a].op \in ManagerOps /\ calls[b].op \in ManagerOps)
      => \A x \in WrittenAt(calls[a]), y \in WrittenAt(calls[b]) :
           calls[a].att[x].job = calls[b].att[y].job
             => calls[a].att[x].path # calls[b].att[y].path

\* C9: every file written for a job lies in baseFolder/documentName/category:
\* documentName is the stem of the document's file name or, for a document
\* never saved, one fixed sentinel; category is the job's classification; and
\* all files of one job are in one folder, whichever save path wrote them.
C9_Folder ==
  /\ \A f \in JobFiles :
       /\ Len(f.path.dir) = 3
       /\ f.path.dir[1] = BaseFolder
       /\ doc_filename # DocUnsaved => f.path.dir[2] = doc_filename.stem
       /\ f.path.dir[3] = get_image_type(jobs[f.job])
  /\ \A f, g \in JobFiles :
       /\ f.path.dir[2] = g.path.dir[2]
       /\ f.job = g.job => f.path.dir = g.path.dir

\* C10: every image a save wrote carries exactly one text entry; its keyword is
\* "metadata" and its value is the JSON payload.
C10_SingleKeyword ==
  \A f \in disk :
    /\ Len(f.chunks) = 1
    /\ f.chunks[1].k = "metadata"
    /\ loads(f.chunks[1].v).ok
    /\ loads(f.chunks[1].v).v.t = "obj"

\* C10 witness: a file written by a job save and the file of a document export
\* are both on disk.
C10_JobFileAndExport ==
  /\ \E f \in JobFiles : Len(f.chunks) = 1
  /\ \E f \in disk : f.by = "_save_document_with_metadata" /\ Len(f.chunks) = 1

\* The keywords the specification says decoding recognizes.
RecognizedKeywords == {"AI_METADATA_JSON", "AI", "AI_META", "metadata"}

\* The record a reader made canonical, JNone when it made none.
Canonical == Get(shown.metadata, "AI_METADATA_JSON", JNone)

\* C11: when a reader has opened a PNG file whose only text chunk is a plain
\* one, the result holds that chunk's parsed text as the canonical AI record
\* exactly when the chunk's keyword is AI_METADATA_JSON, AI, AI_META or
\* metadata and its text parses as JSON.
C11_RecognizedKeywords ==
  (/\ shown.via # "none"
   /\ Len(shown.file.chunks) = 1
   /\ ChunkType(shown.file.chunks[1]) = "tEXt")
  => LET c == shown.file.chunks[1]
         parsed == loads(c.v)
     IN (Has(shown.metadata, "AI_METADATA_JSON") /\ parsed.ok /\ Canonical = parsed.v)
        <=> (c.k \in RecognizedKeywords /\ parsed.ok)

\* The JSON text a chunk carries: its text, or what its stream inflates to.
CarriedText(c) ==
  IF ChunkType(c) = "zTXt"
  THEN (IF c.method = 0 /\ decompress(c.v).ok THEN decompress(c.v).text
        ELSE <<Byte("unreadable")>>)
  ELSE c.v

\* A chunk that can become the canonical record: a plain or compressed chunk
\* under a recognized keyword whose text parses as JSON.
Candidate(c) ==
  /\ ChunkType(c) \in {"tEXt", "zTXt"}
  /\ c.k \in RecognizedKeywords
  /\ loads(StripText(CarriedText(c))).ok

\* c comes before d in the priority order: plain before compressed, then the
\* order in the file.
Before(chunks, x, y) ==
  \/ ChunkType(chunks[x]) = "tEXt" /\ ChunkType(chunks[y]) = "zTXt"
  \/ ChunkType(chunks[x]) = ChunkType(chunks[y]) /\ x < y

\* C12: when _load_external_image has opened a file in which two chunks are
\* candidates, the canonical record is the one parsed from the candidate that
\* comes first in the priority order, and the later candidate is kept as a raw
\* entry under its own key.
C12_FirstCandidateWins ==
  (shown.via = "_load_external_image" /\ Len(shown.file.chunks) = 2)
  => \A x, y \in 1..2 :
       LET chunks == shown.file.chunks
       IN (Candidate(chunks[x]) /\ Candidate(chunks[y]) /\ Before(chunks, x, y))
          => /\ Canonical = loads(StripText(CarriedText(chunks[x]))).v
             /\ Has(shown.metadata, "PNG_" \o ChunkType(chunks[y]) \o "_" \o chunks[y].k)

\* A compressed chunk under a recognized keyword whose compression-method byte
\* is not 0.
UnsupportedChunk(c) ==
  ChunkType(c) = "zTXt" /\ c.k \in RecognizedKeywords /\ c.method # 0

\* C13: when _load_external_image has opened a file with a compressed chunk
\* under a recognized keyword whose compression method is not 0, the result
\* holds the 'unsupported compression' marker under that keyword whether or
\* not the chunk's data is a valid stream, and when no other chunk of the file
\* is a candidate there is no canonical record and nothing is raised.
C13_UnsupportedCompression ==
  shown.via = "_load_external_image"
  => \A x \in 1..Len(shown.file.chunks) :
       LET chunks == shown.file.chunks
       IN UnsupportedChunk(chunks[x])
          => /\ Get(shown.metadata, "PNG_zTXt_" \o chunks[x].k, JNone) = Unsupported
             /\ (\A y \in 1..Len(chunks) : ~Candidate(chunks[y]))
                => ~Has(shown.metadata, "AI_METADATA_JSON") /\ ~shown.raised

\* C13 witness: the dialog reader has opened a file whose compressed chunk under
\* a recognized keyword has method 1 and a valid stream of a record, and the
\* marker is in the result.
C13_MarkerRecorded ==
  /\ shown.via = "_load_external_image"
  /\ \E x \in 1..Len(shown.file.chunks) :
       /\ UnsupportedChunk(shown.file.chunks[x])
       /\ shown.file.chunks[x].v = Deflated("record")
       /\ Get(shown.metadata, "PNG_zTXt_" \o shown.file.chunks[x].k, JNone) = Unsupported

\* A result entry that holds a non-empty string.
Populated(d, key) ==
  Has(d, key) /\ Get(d, key, JNone).t = "str" /\ Get(d, key, JNone).s # <<>>

C15_DisplayNeverRaises == shown.via # "none" => ~shown.raised

\* C16: a save operation that an exception left was stopped by the base
\* folder (nothing else aborts a batch), wrote no image, and its exception was
\* not swallowed by the caller into a log line: it was shown in a message box
\* or left the handler.
C16_FolderFailureReported ==
  \A k \in 1..Len(calls) :
    calls[k].raised
    => /\ ~folder_ok
       /\ calls[k].att = <<>>
       /\ \A f \in disk : f.call # k
       /\ calls[k].reported \in {"dialog", "propagated"}

\* The two bulk operations over the history.
BulkOps == {"save_all_history_images", "_auto_save_images_from_history"}

\* The jobs a bulk save is to process: finished, of a saved kind, with results.
Eligible == {j \in 1..Len(jobs) : jobs[j].n > 0 /\ jobs[j].kind \in SaveKinds}

\* The attempts of a call that belong to job j.
AttemptsOf(c, j) == {x \in 1..Len(c.att) : c.att[x].job = j}

\* The category folder the single-job operation of the same family uses.
SingleJobFolder(c, j) ==
  IF c.op = "save_all_history_images"
  THEN <<BaseFolder, doc_name(doc_filename, "unsaved_document"), get_image_type(jobs[j])>>
  ELSE <<BaseFolder, doc_name(doc_filename, "document_non_sauvegarde"),
         image_type_of(jobs[j])>>

\* C17: a bulk history save that no folder stopped processes exactly the jobs
\* of kind diffusion, animation or upscaling that have results, every image of
\* each; writes each image where the single-job operation writes it, with the
\* record the single-job operation embeds; and returns the number of images
\* whose save did not raise, summed over the jobs.
C17_BulkIsPerJob ==
  \A k \in 1..Len(calls) :
    (calls[k].op \in BulkOps /\ auto_save_generated /\ folder_ok /\ blocked = {})
    => LET c == calls[k]
       IN /\ ~c.raised
          /\ {c.att[x].job : x \in 1..Len(c.att)} = Eligible
          /\ \A j \in Eligible : Cardinality(AttemptsOf(c, j)) = jobs[j].n
          /\ \A x \in 1..Len(c.att) : c.att[x].path.dir = SingleJobFolder(c, c.att[x].job)
          /\ \A f \in disk :
               f.call = k => f.chunks = metadata_dict(metadata_json(RecordOf(f)))
          /\ c.ret = Cardinality({x \in 1..Len(c.att) : c.att[x].out # "raise"})

\* The jobs whose save raises inside the bulk save of the manager: the
\* category folder of the job cannot be made.
RaisingJobs == {j \in Eligible : get_image_type(jobs[j]) \in blocked}

\* C18: a call of save_all_history_images that got past the base folder
\* returns normally; a job whose save raised has no part in the total; every
\* other eligible job, also one that comes after a job that raised, had all its
\* images attempted; and the total is the count over those jobs.
C18_RaisingJobSkipped ==
  \A k \in 1..Len(calls) :
    (calls[k].op = "save_all_history_images" /\ auto_save_generated /\ folder_ok)
    => LET c == calls[k]
       IN /\ ~c.raised
          /\ \A j \in RaisingJobs : AttemptsOf(c, j) = {}
          /\ \A j \in Eligible \ RaisingJobs : Cardinality(AttemptsOf(c, j)) = jobs[j].n
          /\ c.ret = Cardinality({x \in 1..Len(c.att) : c.att[x].out # "raise"})

\* C18 witness: the save of the first job of the history raised, the image of
\* the second job was written, and the call returned 1.
C18_SecondJobSaved ==
  \E k \in 1..Len(calls) :
    /\ calls[k].op = "save_all_history_images"
    /\ ~calls[k].raised
    /\ 1 \in RaisingJobs
    /\ 2 \in Eligible \ RaisingJobs
    /\ calls[k].ret = 1
    /\ \E f \in disk : f.call = k /\ f.job = 2

\* The closed set of category labels.
Categories == {"Generate", "Refine", "Upscale"}

\* C19: every file a save operation wrote embeds a record whose
\* generation_type is Generate, Refine or Upscale, and every file written for
\* a job lies in a category folder of one of these three names.
C19_ClosedCategories ==
  /\ \A f \in disk :
       LET record == loads(Payload(f))
       IN /\ record.ok
          /\ record.v.t = "obj"
          /\ \E label \in Categories :
               Get(record.v.kids, "generation_type", JNone) = JStr(Word(label))
  /\ \A f \in JobFiles : f.path.dir[3] \in Categories

(***************************************************************************)
(* C20: a job-finished event saves the images of the job once, exactly     *)
(* when auto-save is enabled, the kind is diffusion, animation or          *)
(* upscaling and the job has a result; the job has its history entry by    *)
(* then, whether the save raised or not; and no other event of the         *)
(* document adds a file of _auto_save_images.                              *)
(***************************************************************************)
\* The files the save of the job-finished handler wrote.
AutoSaveFiles(d) == {f \in d : f.by = "_auto_save_images"}

\* The step is a job-finished event: the job joins the queue.
JobFinishes == Len(jobs') = Len(jobs) + 1

\* The job of the event and the saves the event made.
FinishedJob == jobs'[Len(jobs')]

SavesOfStep == {k \in (Len(calls) + 1)..Len(calls') : calls'[k].op = "_auto_save_images"}

C20_Step ==
  IF JobFinishes
  THEN /\ IF auto_save_generated /\ FinishedJob.kind \in SaveKinds /\ FinishedJob.n > 0
          THEN /\ Len(calls') = Len(calls) + 1
               /\ Cardinality(SavesOfStep) = 1
               /\ calls'[Len(calls')].job = FinishedJob.id
               /\ FinishedJob.id \in history'
          ELSE /\ calls' = calls
               /\ disk' = disk
       /\ \A f \in AutoSaveFiles(disk') \ AutoSaveFiles(disk) : f.job = FinishedJob.id
  ELSE /\ AutoSaveFiles(disk') \subseteq AutoSaveFiles(disk)
       /\ SavesOfStep = {}
       /\ history' = history

SyncFiles == {f \in disk : f.by \in {"_auto_save_images", "_auto_save_images_from_history"}}

\* The files whose record was embedded whole, not replaced by the reduced one.
WholeFiles == {f \in SyncFiles : Embedded(f).ok /\ ~Has(Embedded(f).v.kids, "truncated")}

\* The entry is a dict whose flag, when it has one, is on.
KeptLora(e) ==
  /\ e.t = "obj"
  /\ Has(e.kids, "enabled") => Truthy(Get(e.kids, "enabled", JNone))

\* The y-th index, in increasing order, of a set of indexes.
NthOf(S, y) == CHOOSE x \in S : Cardinality({z \in S : z < x}) = y - 1

C21_EnabledLorasInOrder ==
  \A f \in WholeFiles :
    LET md == jobs[f.job].metadata
        list == Get(md, "loras", JNone)
        kept == {x \in 1..Len(list.kids) : KeptLora(list.kids[x].v)}
        got == Get(Embedded(f).v.kids, "loras", JNone)
    IN (Has(md, "loras") /\ list.t = "list")
       => /\ got.t = "list"
          /\ Len(got.kids) = Cardinality(kept)
          /\ \A y \in 1..Len(got.kids) :
               LET e == list.kids[NthOf(kept, y)].v
                   r == got.kids[y].v
               IN /\ r.t = "obj"
                  /\ Len(r.kids) = 2
                  /\ r.kids[1] = [k |-> "name",
                                  v |-> Get(e.kids, "name", JStr(Word("Unknown")))]
                  /\ r.kids[2] = [k |-> "strength",
                                  v |-> Get(e.kids, "strength", JFloat(100))]

\* C21 witness: the history save wrote the record of the job with two enabled
\* loras around a disabled one, and the record lists the two.
C21_TwoOfThreeLoras ==
  \E f \in WholeFiles :
    /\ f.by = "_auto_save_images_from_history"
    /\ jobs[f.job].seed = 21
    /\ Len(Get(Embedded(f).v.kids, "loras", JNone).kids) = 2

(***************************************************************************)
(* C22: every key of the job's metadata mapping outside prompt,            *)
(* negative_prompt, style, checkpoint, sampler and loras is in the record  *)
(* exactly once as "param_" + key with a string of at most 500 characters; *)
(* the six keys have no such entry, the record has no entry beyond its     *)
(* twelve own fields, loras and these, and the own fields keep the values  *)
(* of the job.                                                             *)
(***************************************************************************)
NotPrefixed == {"prompt", "negative_prompt", "style", "checkpoint", "sampler", "loras"}

\* The members of the record rec under the key k.
MembersAt(rec, k) == {i \in 1..Len(rec) : rec[i].k = k}

C22_PrefixedParams ==
  \A f \in WholeFiles :
    LET job == jobs[f.job]
        md == job.metadata
        rec == Embedded(f).v.kids
        passed == {x \in 1..Len(md) : md[x].k \notin NotPrefixed}
    IN /\ \A x \in 1..Len(md) :
            IF x \in passed
            THEN /\ Cardinality(MembersAt(rec, "param_" \o md[x].k)) = 1
                 /\ Get(rec, "param_" \o md[x].k, JNone).t = "str"
                 /\ StrLen(Get(rec, "param_" \o md[x].k, JNone).s) <= 500
            ELSE MembersAt(rec, "param_" \o md[x].k) = {}
       /\ Len(rec) = 12 + (IF Has(md, "loras") THEN 1 ELSE 0) + Cardinality(passed)
       /\ Get(rec, "prompt", JNone) = JStr(job.prompt)
       /\ Get(rec, "seed", JNone) = JInt(job.seed)
       /\ Get(rec, "strength", JNone) = JFloat(job.strength)
       /\ Get(rec, "sampler", JNone) = Get(md, "sampler", JStr(<<>>))

\* C22 witness: the record of the job whose metadata has the keys steps, seed,
\* sampler, prompt and cfg is on the disk with param_seed next to its own seed
\* and with param_cfg cut to 500 characters.
C22_CutAndPrefixed ==
  \E f \in WholeFiles :
    LET rec == Embedded(f).v.kids
    IN /\ jobs[f.job].seed = 25
       /\ Get(rec, "seed", JNone) = JInt(25)
       /\ Get(rec, "param_seed", JNone).t = "str"
       /\ StrLen(Get(rec, "param_cfg", JNone).s) = 500
       /\ ~Has(rec, "param_prompt")

(***************************************************************************)
(* C23: a save of a job's images that got past its early returns and the   *)
(* making of the folders attempts every image once, in the order 0..n-1,   *)
(* and ends; save_job_images returns the count of the attempts that did    *)
(* not raise; a file it left is the file of an attempt that wrote, and the *)
(* record of each file of _auto_save_images has batch_index equal to the   *)
(* index of the image and total_images equal to n.                         *)
(***************************************************************************)
\* The step is a save of one job's images that is past the early returns
\* and the folder setup.
BatchStarts ==
  /\ Len(calls') = Len(calls) + 1
  /\ calls'[Len(calls')].op \in {"save_job_images", "_auto_save_images"}
  /\ auto_save_generated
  /\ folder_ok
  /\ jobs'[calls'[Len(calls')].job].n > 0

C23_Step ==
  BatchStarts =>
    LET k == Len(calls')
        c == calls'[k]
        n == jobs'[c.job].n
        left == {f \in disk' : f.call = k}
    IN /\ ~c.raised
       /\ Len(c.att) = n
       /\ \A x \in 1..n : c.att[x].i = x - 1 /\ c.att[x].job = c.job
       /\ c.op = "save_job_images"
            => c.ret = Cardinality({x \in 1..n : c.att[x].out # "raise"})
       /\ \A f \in left :
            /\ f.i \in 0..(n - 1)
            /\ c.att[f.i + 1].out = "ok"
            /\ f.path = c.att[f.i + 1].path
            /\ (f.by = "_auto_save_images" /\ ~Has(Embedded(f).v.kids, "truncated"))
                 => /\ Get(Embedded(f).v.kids, "batch_index", JNone) = JInt(f.i)
                    /\ Get(Embedded(f).v.kids, "total_images", JNone) = JInt(n)

C23_BatchRunsToCompletion == [][C23_Step]_vars

\* C23 witness: a job-finished save of two images whose first image raised
\* and whose second image was written with batch_index 1 of 2.
C23_SecondOfTwo ==
  \E k \in 1..Len(calls) :
    /\ calls[k].op = "_auto_save_images"
    /\ Len(calls[k].att) = 2
    /\ calls[k].att[1].out = "raise"
    /\ \E f \in disk :
         /\ f.call = k
         /\ f.i = 1
         /\ Get(Embedded(f).v.kids, "batch_index", JNone) = JInt(1)
         /\ Get(Embedded(f).v.kids, "total_images", JNone) = JInt(2)

(***************************************************************************)
(* C24: in the text the presenter builds for a job, a metadata value that  *)
(* is a non-empty list of objects has one line, whose text is              *)
(* 'name (strength)' of every enabled entry in the order of the list,      *)
(* joined by ', ' (the word for none when no entry is enabled); an empty   *)
(* list has no line; and no step that builds a text changes the jobs.      *)
(***************************************************************************)
\* The job with that id, in the queue of either Model.
JobById(id) == IF id = 1 THEN jobs[1] ELSE OtherJob

ObjectList(v) ==
  /\ v.t = "list"
  /\ v.kids # <<>>
  /\ \A x \in 1..Len(v.kids) : v.kids[x].v.t = "obj"

\* The piece at position z of the text of a list of objects.
PieceAt(list, kept, z) ==
  LET e == list.kids[NthOf(kept, ((z - 1) \div 5) + 1)].v
  IN CASE z % 5 = 1 -> StrOf(Get(e.kids, "name", JStr(Word("Unknown"))))
       [] z % 5 = 2 -> Lit(" (")
       [] z % 5 = 3 -> StrOf(Get(e.kids, "strength", JFloat(100)))
       [] z % 5 = 4 -> Lit(")")
       [] OTHER -> Lit(", ")

RendersLists(job, lines, none) ==
  \A x \in 1..Len(job.metadata) :
    LET key == job.metadata[x].k
        list == job.metadata[x].v
        kept == {y \in 1..Len(list.kids) : KeptLora(list.kids[y].v)}
        at == {l \in 1..Len(lines) : lines[l].key = key}
    IN /\ (list.t = "list" /\ list.kids = <<>>) => at = {}
       /\ (ObjectList(list) /\ key # "style")
          => /\ Cardinality(at) = 1
             /\ \A l \in at :
                  IF kept = {} THEN lines[l].text = <<Lit(none)>>
                  ELSE /\ Len(lines[l].text) = 5 * Cardinality(kept) - 1
                       /\ \A z \in 1..Len(lines[l].text) :
                            lines[l].text[z] = PieceAt(list, kept, z)

PresentedLists ==
  /\ panel.text.kind = "metadata"
     => RendersLists(JobById(panel.text.job), panel.text.lines, "None")
  /\ (shown.via = "_format_detailed_metadata" /\ ~shown.raised)
     => RendersLists(jobs[1], shown.metadata, "Aucun")

C24_ListOfObjectsRendered == []PresentedLists /\ [][jobs' = jobs]_vars

\* C24 witness: the panel shows the job with two enabled loras around a
\* disabled one, on one line of nine pieces, and the dialog showed it too.
C24_TwoOfThreeShown ==
  /\ panel.text.kind = "metadata"
  /\ panel.text.job = 1
  /\ jobs[1].seed = 21
  /\ Len(panel.text.lines) = 1
  /\ Len(panel.text.lines[1].text) = 9
  /\ shown.via = "_format_detailed_metadata"
  /\ shown.metadata = panel.text.lines

(***************************************************************************)
(* C28: when the selection of the Model the panel is connected to changes, *)
(* the panel shows the placeholder for an empty selection, 'Image not      *)
(* found' when the first selected job is not in the queue of that Model,   *)
(* and else the text of the first selected job; a change of the selection  *)
(* of another Model leaves the text alone; and once a model was set the    *)
(* panel holds exactly one connection, to its current Model.               *)
(***************************************************************************)
\* What the panel shows for that selection of its Model.
ShowsSelection(p, sel) ==
  IF sel = <<>> THEN p.text = Placeholder
  ELSE IF \A x \in 1..Len(QueueOf(p.model)) : QueueOf(p.model)[x].id # sel[1]
  THEN p.text = NotFound
  ELSE \/ /\ p.text.kind = "metadata"
          /\ p.text.job = sel[1]
          /\ \E style \in BOOLEAN :
               p.text.lines = TechnicalLines(JobById(sel[1]).metadata, 1, style, "None")
       \/ \E style \in BOOLEAN : FormatRaises(JobById(sel[1]), style)

C28_Step ==
  /\ panel'.model # panel.model => panel'.bindings = <<panel'.model>>
  /\ panel.bindings # <<>> => panel'.bindings = <<panel'.model>>
  /\ \A m \in Models :
       (panel'.selection[m] # panel.selection[m])
       => /\ panel'.model = panel.model
          /\ (m = panel.model /\ panel.bindings # <<>>)
             => ShowsSelection(panel', panel'.selection[m])
          /\ m # panel.model => panel'.text = panel.text

StaysIn(a, b, lo, hi, step) ==
  /\ (a >= lo /\ a <= hi) => (b >= lo /\ b <= hi)
  /\ b - a <= step
  /\ a - b <= step
  /\ a < lo => b >= a
  /\ a > hi => b <= a

C29_Step ==
  /\ StaysIn(panel.font_size, panel'.font_size, 8, 20, 1)
  /\ StaysIn(panel.widget_height, panel'.widget_height, 120, 400, 20)
  /\ panel'.text_height = panel'.widget_height - 10
  /\ panel'.font_size # panel.font_size => panel'.saved_font = panel'.font_size
  /\ panel'.widget_height # panel.widget_height => panel'.saved_height = panel'.widget_height

C29_SizesStayInRange == [][C29_Step]_vars

\* C29, the part that holds: every clause but the one on a height inside
\* 120..400, which holds for the heights that differ from 120 by a multiple
\* of 20.
C29_StepOnGrid ==
  /\ StaysIn(panel.font_size, panel'.font_size, 8, 20, 1)
  /\ (panel.widget_height % 20 = 0)
     => StaysIn(panel.widget_height, panel'.widget_height, 120, 400, 20)
  /\ panel'.widget_height - panel.widget_height <= 20
  /\ panel.widget_height - panel'.widget_height <= 20
  /\ panel.widget_height < 120 => panel'.widget_height >= panel.widget_height
  /\ panel.widget_height > 400 => panel'.widget_height <= panel.widget_height
  /\ panel'.text_height = panel'.widget_height - 10
  /\ panel'.font_size # panel.font_size => panel'.saved_font = panel'.font_size
  /\ panel'.widget_height # panel.widget_height => panel'.saved_height = panel'.widget_height

C29_SizesOnGrid == [][C29_StepOnGrid]_vars

\* C29 witness: the height went from 395 up to 415.
C29_HeightAbove ==
  /\ panel.widget_height = 415
  /\ panel.text_height = 405
  /\ panel.saved_height = 415

(***************************************************************************)
(* C25: a call of save_job_images, of save_all_history_images or of        *)
(* _auto_save_images_from_history made while auto-save is off returns 0,   *)
(* makes no folder, attempts no image and leaves the disk as it was; so    *)
(* does a call of save_job_images for a job without results.               *)
(***************************************************************************)
\* The call returned 0 and did nothing.
NoEffect(c) ==
  /\ ~c.raised
  /\ c.ret = 0
  /\ c.dirs = {}
  /\ c.att = <<>>
  /\ disk' = disk

C25_Step ==
  Len(calls') = Len(calls) + 1
  => LET c == calls'[Len(calls')]
     IN /\ (/\ c.op \in {"save_job_images", "save_all_history_images",
                         "_auto_save_images_from_history"}
            /\ ~auto_save_generated)
           => NoEffect(c)
        /\ (c.op = "save_job_images" /\ jobs[c.job].n = 0) => NoEffect(c)

C25_DisabledDoesNothing == [][C25_Step]_vars

\* C25 witness: with auto-save off, the job that has results was handed to
\* save_job_images and the history to save_all_history_images; both returned
\* 0 and the disk is empty.
C25_BothCalledWhileOff ==
  /\ ~auto_save_generated
  /\ folder_ok
  /\ disk = {}
  /\ Len(jobs) = 1
  /\ jobs[1].n > 0
  /\ jobs[1].kind \in SaveKinds
  /\ \E c \in 1..Len(calls) :
       /\ calls[c].op = "save_job_images"
       /\ calls[c].ret = 0
       /\ calls[c].att = <<>>
       /\ calls[c].dirs = {}
  /\ \E c \in 1..Len(calls) :
       /\ calls[c].op = "save_all_history_images"
       /\ calls[c].ret = 0
       /\ calls[c].dirs = {}

(***************************************************************************)
(* C26: when _save_results has stored a job, the memory used is at most    *)
(* the history storage limit or the history is empty; the entries it       *)
(* pruned are the oldest ones, and the annotation and the memory entry of  *)
(* each of them are gone.                                                  *)
(***************************************************************************)
\* The step is a _save_results that stored a job.
Stores == sync'.slot_index = sync.slot_index + 1

C26_Step ==
  Stores
  => LET all == Append(sync.history, [id |-> sync'.ids, slot |-> sync.slot_index])
         cut == Len(all) - Len(sync'.history)
     IN /\ memory_used(sync') <= sync'.limit \/ sync'.history = <<>>
        /\ cut >= 0
        /\ sync'.history = SubSeq(all, cut + 1, Len(all))
        /\ \A x \in 1..cut :
             /\ all[x].slot \notin DOMAIN sync'.memory
             /\ all[x].slot \notin DOMAIN sync'.annotations

C26_PruneOldestFirst == [][C26_Step]_vars

\* C26 witness: three jobs were stored, the first of them was pruned and the
\* other two are kept within the limit.
C26_OldestPruned ==
  /\ sync.slot_index = 3
  /\ Len(sync.history) = 2
  /\ sync.history[1].slot = 1
  /\ sync.history[2].slot = 2
  /\ 0 \notin DOMAIN sync.annotations
  /\ memory_used(sync) = sync.limit

(***************************************************************************)
(* C27: whatever jobs finish, are discarded or lose a result, the slots of *)
(* the history entries differ from one another, each is below the next     *)
(* slot index, and the slots with a memory entry are the slots of the      *)
(* history.                                                                *)
(***************************************************************************)
C27_SlotsConsistent ==
  /\ \A x, y \in 1..Len(sync.history) :
       x # y => sync.history[x].slot # sync.history[y].slot
  /\ \A x \in 1..Len(sync.history) : sync.history[x].slot < sync.slot_index
  /\ DOMAIN sync.memory = {sync.history[x].slot : x \in 1..Len(sync.history)}

\* C27 witness: after a job was discarded and another lost a result, the
\* history holds slots 0 and 2 of three given out.
C27_AfterDiscards ==
  /\ sync.slot_index = 3
  /\ Len(sync.history) = 2
  /\ sync.history[1].slot = 0
  /\ sync.history[2].slot = 2
  /\ Len(sync.queue) = 2
  /\ sync.queue[1].n = 1
  /\ sync.memory[0] = sync.queue[1].weight
  /\ sync.queue[1].weight = 2

(***************************************************************************)
(* C30: an uninstall that finds the backup puts the three files back to    *)
(* their content of before the first install, removes the backup and       *)
(* reports success; an uninstall that finds no backup changes no file and  *)
(* reports failure.                                                        *)
(***************************************************************************)
\* The step is an uninstall.
Uninstalls == installed'.report.n = installed.report.n + 1 /\ installed'.report.op = "uninstall"

C30_Step ==
  Uninstalls
  => IF installed.backup # <<>>
     THEN /\ installed'.files = installed.first
          /\ installed'.backup = <<>>
          /\ installed'.report.ok
     ELSE /\ installed'.files = installed.files
          /\ installed'.backup = <<>>
          /\ ~installed'.report.ok

C30_UninstallRestoresFirst == [][C30_Step]_vars

\* C30, the part that holds: the files go back to their content of before
\* the latest install that made a backup.
C30_StepToBackup ==
  Uninstalls
  => IF installed.backup # <<>>
     THEN /\ installed'.files = installed.backup
          /\ installed'.backup = <<>>
          /\ installed'.report.ok
     ELSE /\ installed'.files = installed.files
          /\ installed'.backup = <<>>
          /\ ~installed'.report.ok

C30_UninstallRestoresBackup == [][C30_StepToBackup]_vars

\* C30 witness: two installs and an uninstall left persistence.py with the
\* import line of the first install.
C30_ImportLeft ==
  /\ installed.report = [op |-> "uninstall", ok |-> TRUE, n |-> 3]
  /\ installed.first.persistence = <<"S", "X", "D", "X">>
  /\ installed.files.persistence = <<"S", "IP", "X", "D", "X">>
  /\ installed.backup = <<>>

====
